---- MODULE Spec2Model ----
(***************************************************************************)
(* Model of ack-ram-authenticator: the token verifier (package token,      *)
(* tokenVerifier.Verify and its helpers), the token generator              *)
(* (generator.GetWithOptions, GetWithSTS) and the dynamic file mapper's    *)
(* store (package dynamicfile).  Each component has its own specification; *)
(* the variables of the other components keep their initial values in it.  *)
(*                                                                         *)
(* Strings are modelled by their structure, as far as the code looks into  *)
(* them: a token is its leading version-prefix chunks, the length of the   *)
(* text after them and what that text decodes to; a URL is its scheme,     *)
(* host (a sequence of dot-separated labels), path and raw query (a        *)
(* sequence of key/value pairs).                                           *)
(***************************************************************************)
EXTENDS Integers, Sequences, FiniteSets, TLC

(***************************************************************************)
(* Bounds of the model.                                                    *)
(***************************************************************************)
\* largest number of key=value pairs in the query of a token's URL
MaxQueryPairs == 3
\* length in bytes of the long security token a credential may carry
LongSecurityTokenLen == 3000
\* largest number of events waiting in watcher.Events
MaxEvents == 1
\* largest number of errors waiting in watcher.Errors
MaxWatcherErrors == 1
\* creations and deletions of RAMIdentityMappings at the API server
MaxApiEvents == 3

(***************************************************************************)
(* Program constants.                                                      *)
(***************************************************************************)
maxTokenLenBytes == 4096
v1Prefix == "k8s-ack-v1."
v2Prefix == "k8s-ack-v2."
\* len("k8s-ack-v1.") = len("k8s-ack-v2.")
PrefixLen == 11
StatusOK == 200
StatusBadRequest == 400
\* minutes
presignedURLExpiration == 15
stsSignVersion == "1.0"
stsAPIVersion == "2015-04-01"
respBodyFormat == "JSON"
\* len("https://sts.aliyuncs.com/")
StsHostLen == 25

parameterWhitelist ==
    { "action", "durationseconds", "signatureversion", "signaturenonce",
      "signaturemethod", "accesskeyid", "timestamp", "signature", "format",
      "version", "rolesessionname", "rolearn", "securitytoken", "clusterid",
      "x-acs-action", "x-acs-version", "authorization",
      "x-acs-signature-nonce", "x-acs-date", "x-acs-content-sha256",
      "x-acs-content-sm3", "x-acs-security-token", "ackclusterid" }

(***************************************************************************)
(* The strings the model draws from.                                       *)
(***************************************************************************)
\* strings.ToLower on the query keys and values the model uses
ToLower(s) ==
    CASE s = "Action"      -> "action"
      [] s = "ClusterId"   -> "clusterid"
      [] s = "AccessKeyId" -> "accesskeyid"
      [] s = "Attack"      -> "attack"
      [] s = "C999"        -> "c999"
      [] s = "HTTPS"       -> "https"
      [] s = "SignatureVersion" -> "signatureversion"
      [] s = "Format"           -> "format"
      [] s = "Timestamp"        -> "timestamp"
      [] s = "SignatureMethod"  -> "signaturemethod"
      [] s = "Version"          -> "version"
      [] s = "SignatureNonce"   -> "signaturenonce"
      [] s = "SecurityToken"    -> "securitytoken"
      [] s = "Signature"        -> "signature"
      [] s = "Admin"            -> "admin"
      [] s = "Alice"            -> "alice"
      [] s = "D*"               -> "d*"
      [] s = "Da"               -> "da"
      [] OTHER             -> s

\* the key=value pairs a token's query is built from, in a fixed order
QueryPairSeq ==
    << <<"Action", "GetCallerIdentity">>,
       <<"Action", "AssumeRole">>,
       <<"action", "AssumeRole">>,
       <<"ClusterId", "c999">>,
       <<"ClusterId", "C999">>,
       <<"clusterid", "c123">>,
       <<"AccessKeyId", "LTAI5t">>,
       <<"accesskeyid", "LTAI9x">>,
       <<"Attack", "1">>,
       <<"Action", "%zz">>,
       <<"Attack", "%zz">> >>

RECURSIVE PickPairs(_, _)
\* the pairs of QueryPairSeq whose index is in idx, from index i on, in order
PickPairs(idx, i) ==
    IF i > Len(QueryPairSeq) THEN << >>
    ELSE IF i \in idx THEN << QueryPairSeq[i] >> \o PickPairs(idx, i + 1)
    ELSE PickPairs(idx, i + 1)

RawQueries ==
    { PickPairs(idx, 1) :
        idx \in { s \in SUBSET (1..Len(QueryPairSeq)) : Cardinality(s) <= MaxQueryPairs } }

\* hosts, as sequences of labels
HostDefault == << "sts", "aliyuncs", "com" >>
HostRegion  == << "sts", "cn-hangzhou", "aliyuncs", "com" >>
HostEvil    == << "sts", "evil", "aliyuncs", "com", "cn", "attacker", "tld" >>
HostVpc     == << "sts-vpc", "cn-hangzhou", "aliyuncs", "com" >>
TokenHosts  == { HostDefault, HostRegion, HostEvil }

\* the decoded payloads: text url.Parse refuses, or a URL
NotAURL == [ kind |-> "noturl" ]
URLs ==
    [ kind : {"url"},
      scheme : {"https", "HTTPS", "http"},
      host : TokenHosts,
      path : {"/", "/evil"},
      query : RawQueries ]
Payloads == { NotAURL } \cup URLs

\* the text after the prefixes: standard base64 of a payload, or text that is
\* not standard base64
Garbage == [ kind |-> "garbage" ]
Encoded == { Garbage } \cup Payloads

\* lengths of the text after the prefixes
EncLens == { 64, 4084, 4088 }

TokenPrefixes ==
    { << >>, << v1Prefix >>, << v2Prefix >>, << v1Prefix, v2Prefix >>, << v2Prefix, v1Prefix >> }

\* the payload of a v2 token: a request envelope, opaque to this model
V2Envelope == [ kind |-> "v2envelope" ]

\* a token: prefix chunks, then encLen bytes of text
Tokens ==
    [ pre : TokenPrefixes \ { << v2Prefix >> }, encLen : EncLens, enc : Encoded ]
    \cup [ pre : { << v2Prefix >> }, encLen : EncLens, enc : { Garbage, V2Envelope } ]

\* what the identity service may answer
Account == "111122223333"
Arns ==
    { [ kind |-> "empty" ],
      [ kind |-> "malformed" ],
      [ kind |-> "arn", partition |-> "acs", service |-> "ram", account |-> Account,
        resource |-> << "user", "alice" >> ],
      [ kind |-> "arn", partition |-> "acs", service |-> "ram", account |-> Account,
        resource |-> << "role", "Admin" >> ],
      [ kind |-> "arn", partition |-> "acs", service |-> "ram", account |-> Account,
        resource |-> << "assumed-role", "Admin", "sess1" >> ],
      [ kind |-> "arn", partition |-> "acs", service |-> "ram", account |-> Account,
        resource |-> << "group", "ops" >> ] }
\* a PrincipalId, as its colon-separated parts
PrincipalIDs == { << "" >>, << "33333" >>, << "33333", "sess1" >>, << "a", "b", "c" >> }
Bodies ==
    { [ kind |-> "unreadable" ], [ kind |-> "notjson" ] }
    \cup [ kind : {"json"}, Arn : Arns, AccountID : { Account }, PrincipalID : PrincipalIDs ]
Statuses == { StatusOK, 302, 403 }
DoOutcomes ==
    { [ kind |-> "urlError" ], [ kind |-> "otherError" ] }
    \cup [ kind : {"response"}, StatusCode : Statuses, Body : Bodies ]

\* the verifier configurations (NewVerifier)
Verifiers ==
    { [ clusterID |-> "c999", stsEndpoint |-> HostVpc ],
      [ clusterID |-> "c123", stsEndpoint |-> HostDefault ] }

(***************************************************************************)
(* State.                                                                  *)
(***************************************************************************)
VARIABLES
    v,                \* the tokenVerifier: clusterID, stsEndpoint
    pc,               \* position of the running Verify call
    token,            \* its argument
    tokenBytes,       \* the decoded payload
    parsedURL,        \* the parsed (and host-rewritten) URL of a v1 token
    accessKeyId,      \* the access key id read from the token
    req,              \* the request built from the token
    response,         \* what client.Do returned
    sent,             \* the requests client.Do has sent in this call
    ret               \* what Verify returned: identity and error

verifyVars == << v, pc, token, tokenBytes, parsedURL, accessKeyId, req, response, sent, ret >>

VARIABLES
    gen               \* the last call of the generator: its inputs, token and error

VARIABLES
    file,             \* the mapping file on disk
    users,            \* DynamicFileMapStore.users
    roles,            \* DynamicFileMapStore.roles
    aliAccounts,      \* DynamicFileMapStore.aliAccounts
    mutex,            \* DynamicFileMapStore.mutex: the writer and the readers holding it
    stopCh,           \* whether stopCh is closed
    watcher,          \* the fsnotify watcher of the running cycle
    wpc,              \* position of the load-and-watch goroutine
    wl,               \* its locals
    rpc,              \* position of a lookup against the store
    rl                \* its locals

dynVars == << file, users, roles, aliAccounts, mutex, stopCh, watcher, wpc, wl, rpc, rl >>

VARIABLES
    api,              \* the RAMIdentityMappings the API server holds, by name
    apiEvents,        \* how many creations and deletions it has seen
    uids,             \* how many mappings of each name it has created
    informer,         \* the informer's store (lister and indexer), by name
    synced,           \* ramMappingsSynced
    notes,            \* notifications the informer has for the event handlers
    workqueue,        \* Controller.workqueue
    WildMappingCache, \* Controller.WildMappingCache: the map it holds, or none
    WildMappingCacheLock, \* Controller.WildMappingCacheLock: who holds it
    maps,             \* the WildMappingMaps in memory
    wk,               \* the workers: position and locals of each
    hpc,              \* position of the goroutine that calls the event handlers
    hl,               \* locals of its removeWildMapping
    runpc,            \* position of Controller.Run
    ctrlStopCh,       \* the stopCh handed to CRDMapper.Start
    mapped            \* the last CRDMapper.Map call: its argument and result

ctrlVars == << api, apiEvents, uids, informer, synced, notes, workqueue, WildMappingCache,
               WildMappingCacheLock, maps, wk, hpc, hl, runpc, ctrlStopCh, mapped >>

\* the variables Verify leaves alone
otherVars == << gen, dynVars, ctrlVars >>

vars == << verifyVars, gen, dynVars, ctrlVars >>

None == [ kind |-> "none" ]
NoReturn == [ id |-> None, err |-> None ]

FormatError(message, arg) == [ kind |-> "FormatError", message |-> message, arg |-> arg ]

\* no call of Verify is running
VerifyIdle ==
    /\ pc = "idle"
    /\ token = None
    /\ tokenBytes = None
    /\ parsedURL = None
    /\ accessKeyId = ""
    /\ req = None
    /\ response = None
    /\ sent = << >>
    /\ ret = NoReturn

\* the generator has not been called
GenIdle == gen = None

\* the file does not exist, the store is as NewDynamicFileMapStore leaves it
\* and startLoadDynamicFile has started the goroutine; no lookup is running
DynIdle ==
    /\ file = [ kind |-> "absent" ]
    /\ users = [ x \in {} |-> "" ]
    /\ roles = [ x \in {} |-> "" ]
    /\ aliAccounts = {}
    /\ mutex = [ writer |-> FALSE, readers |-> 0 ]
    /\ stopCh = FALSE
    /\ watcher = None
    /\ wpc = "start"
    /\ wl = None
    /\ rpc = "idle"
    /\ rl = None

\* CRDMapper.Start runs the controller with two workers
threadiness == 2
Workers == { << "worker", i >> : i \in 1..threadiness }
\* the goroutine of the informer that calls the event handlers
Handler == << "handler" >>
\* nobody holds the lock
Unlocked == << >>

\* the names of the RAMIdentityMappings; the resource is cluster-scoped, so
\* the key of the work queue is the name
Names == { "x", "y" }

\* the places for WildMappingMaps: the stored one, and one more for each
\* goroutine that can be building one
MapIds == 1..(2 * (threadiness + 1) + 1)
\* the zero atomic.Value, and a local that refers to no map
NoMap == 0
EmptyWild == [ n \in {} |-> None ]
FreeCell == [ used |-> FALSE, m |-> EmptyWild ]

\* workqueue.NewNamedRateLimitingQueue
NewQueue ==
    [ queue |-> << >>, dirty |-> {}, processing |-> {}, shuttingDown |-> FALSE,
      waiting |-> {}, failures |-> {} ]

\* the key of a worker that holds no item
NoKey == ""

\* the locals of a worker outside syncHandler
WorkerLocals(at) ==
    [ pc |-> at, key |-> NoKey, obj |-> None, copy |-> None, err |-> None,
      updated |-> FALSE, wildCacheMap |-> NoMap, storageMap2 |-> NoMap ]

\* the locals of the handler goroutine outside removeWildMapping, and the
\* name of the mapping whose deletion it was called for
HandlerLocals ==
    [ deleted |-> NoKey, allMapping |-> None, wildCacheMap |-> NoMap,
      wildCacheMapp2 |-> NoMap ]

\* controller.New has returned and CRDMapper.Start has started the informer
\* and the goroutine of Run; the API server holds no mapping
CtrlIdle ==
    /\ api = [ n \in Names |-> [ kind |-> "absent" ] ]
    /\ apiEvents = 0
    /\ uids = [ n \in Names |-> 0 ]
    /\ informer = [ n \in Names |-> [ kind |-> "absent" ] ]
    /\ synced = FALSE
    /\ notes = << >>
    /\ workqueue = NewQueue
    /\ WildMappingCache = NoMap
    /\ WildMappingCacheLock = Unlocked
    /\ maps = [ i \in MapIds |-> FreeCell ]
    /\ wk = [ w \in Workers |-> WorkerLocals("notStarted") ]
    /\ hpc = "idle"
    /\ hl = HandlerLocals
    /\ runpc = "waitForCacheSync"
    /\ ctrlStopCh = FALSE
    /\ mapped = None

Init ==
    /\ v \in Verifiers
    /\ VerifyIdle
    /\ GenIdle
    /\ DynIdle
    /\ CtrlIdle

(***************************************************************************)
(* String helpers on tokens.                                               *)
(***************************************************************************)
\* len(token)
TokenLen(t) == PrefixLen * Len(t.pre) + t.encLen

\* strings.HasPrefix(token, p)
HasPrefix(t, p) == Len(t.pre) > 0 /\ Head(t.pre) = p

\* strings.TrimPrefix(token, p)
TrimPrefix(t, p) == IF HasPrefix(t, p) THEN [ t EXCEPT !.pre = Tail(t.pre) ] ELSE t

\* base64.StdEncoding.DecodeString: the prefix characters '-' and '.' are not
\* in the standard alphabet
Base64Decode(t) ==
    IF Len(t.pre) > 0 \/ t.enc = Garbage
    THEN [ ok |-> FALSE, bytes |-> None ]
    ELSE [ ok |-> TRUE, bytes |-> t.enc ]

(***************************************************************************)
(* URL helpers.                                                            *)
(***************************************************************************)
\* labels that match [a-z1-9\-]+
RegionLabels == { "sts", "cn-hangzhou", "evil", "aliyuncs", "com", "cn", "attacker", "tld" }

\* hostRegexp without its closing anchor: text may follow the match
MatchHostRegexp_Unanchored(host) ==
    /\ Len(host) >= 3
    /\ host[1] = "sts"
    /\ \E skip \in {0, 1} :
          /\ skip = 1 => (Len(host) >= 4 /\ host[2] \in RegionLabels)
          /\ Len(host) >= 3 + skip
          /\ host[2 + skip] = "aliyuncs"
          /\ host[3 + skip] = "com"

\* regexp.MatchString(hostRegexp, host):
\*   ^sts(\.[a-z1-9\-]+)?\.aliyuncs\.com(\.cn)?$
\* as a match of the host's label sequence: sts, an optional label,
\* aliyuncs, com, an optional cn, and nothing after it
MatchHostRegexp(host) ==
    /\ Len(host) >= 3
    /\ host[1] = "sts"
    /\ \E skip \in {0, 1} :
          /\ skip = 1 => (Len(host) >= 4 /\ host[2] \in RegionLabels)
          /\ Len(host) >= 3 + skip
          /\ host[2 + skip] = "aliyuncs"
          /\ host[3 + skip] = "com"
          /\ \/ Len(host) = 3 + skip
             \/ Len(host) = 4 + skip /\ host[4 + skip] = "cn"

\* tokenVerifier.verifyHost
verifyHost(host) ==
    IF ~MatchHostRegexp(host)
    THEN FormatError("unexpected hostname in pre-signed URL", host)
    ELSE None

\* tokenVerifier.verifyClusterID
verifyClusterID(vf, clusterID) ==
    IF vf.clusterID # clusterID
    THEN FormatError("unexpected clusterid in token", clusterID)
    ELSE None

\* the host of the token's URL is kept
RewriteHost_Skip(u, vf) == u

\* parsedURL.Host = v.stsEndpoint
RewriteHost(u, vf) == [ u EXCEPT !.Host = vf.stsEndpoint ]

\* url.Parse: the scheme is lower-cased, host, path and query are kept
URLParse(bytes) ==
    IF bytes.kind # "url"
    THEN [ ok |-> FALSE, url |-> None ]
    ELSE [ ok |-> TRUE,
           url |-> [ Scheme |-> ToLower(bytes.scheme), Host |-> bytes.host,
                     Path |-> bytes.path, RawQuery |-> bytes.query ] ]

\* url.QueryUnescape fails on a percent sign that no two hex digits follow
UnescapeFails(s) == s \in { "%zz", "c%zz" }

\* url.QueryUnescape on the strings the model uses: '+' becomes a space and
\* %XX the byte XX
QueryUnescape(s) ==
    CASE s = "a+b" -> "a b"
      [] s = "a%2Bb" -> "a+b"
      [] s = "2026-11-05T09%3A23%3A35Z" -> "2026-11-05T09:23:35Z"
      [] s = "CAIS%2Ftok%2B1%3D" -> "CAIS/tok+1="
      [] s = "kR%2BoN%2FT8cP0m2bC1u5eq3Yw9ZlA%3D" -> "kR+oN/T8cP0m2bC1u5eq3Yw9ZlA="
      [] OTHER -> s

\* url.QueryEscape on the strings the model uses
QueryEscape(s) ==
    CASE s = "a+b" -> "a%2Bb"
      [] s = "2026-11-05T09:23:35Z" -> "2026-11-05T09%3A23%3A35Z"
      [] s = "CAIS/tok+1=" -> "CAIS%2Ftok%2B1%3D"
      [] s = "kR+oN/T8cP0m2bC1u5eq3Yw9ZlA=" -> "kR%2BoN%2FT8cP0m2bC1u5eq3Yw9ZlA%3D"
      [] OTHER -> s

\* url.ParseQuery skips a pair whose key or value does not unescape, and
\* url.URL.Query drops the error: "It silently discards malformed value pairs."
Malformed(pair) == UnescapeFails(pair[1]) \/ UnescapeFails(pair[2])

\* the keys url.ParseQuery puts into the map
QueryKeys(q) == { q[i][1] : i \in { j \in 1..Len(q) : ~Malformed(q[j]) } }

RECURSIVE ValuesOf(_, _)
\* the values url.ParseQuery appends to key k, in their order
ValuesOf(q, k) ==
    IF q = << >> THEN << >>
    ELSE IF Head(q)[1] = k /\ ~Malformed(Head(q))
    THEN << QueryUnescape(Head(q)[2]) >> \o ValuesOf(Tail(q), k)
    ELSE ValuesOf(Tail(q), k)

\* url.URL.Query: the map from each key to its values
Query(u) == [ k \in QueryKeys(u.RawQuery) |-> ValuesOf(u.RawQuery, k) ]

\* url.Values.Get
Get(values, k) == IF k \in DOMAIN values THEN values[k][1] ELSE ""

\* url.Values.Set
Set(values, k, val) ==
    [ x \in DOMAIN values \cup {k} |-> IF x = k THEN << val >> ELSE values[x] ]

\* the orders in which a range over a map with these keys may run
RangeOrders(keys) ==
    { o \in [ 1..Cardinality(keys) -> keys ] :
        \A i, j \in 1..Cardinality(keys) : o[i] = o[j] => i = j }

\* one iteration of the loop over queryParams: the check of one key
CheckKey(key, values) ==
    IF ToLower(key) \notin parameterWhitelist
    THEN FormatError("non-whitelisted query parameter", key)
    ELSE IF Len(values) # 1
    THEN FormatError("query parameter with multiple values not supported", "")
    ELSE None

RECURSIVE RangeQueryParams(_, _, _, _)
\* the loop over queryParams, visiting the keys in the given order from
\* position i on: the first error, or the filled queryParamsLower
RangeQueryParams(queryParams, order, i, lower) ==
    IF i > Len(order) THEN [ err |-> None, lower |-> lower ]
    ELSE LET key == order[i]
             e == CheckKey(key, queryParams[key]) IN
         IF e # None THEN [ err |-> e, lower |-> lower ]
         ELSE RangeQueryParams(queryParams, order, i + 1,
                               Set(lower, ToLower(key), queryParams[key][1]))

EmptyValues == [ x \in {} |-> << >> ]

\* the action is not looked at
CheckAction_Skip(lower) == None

\* the action check of Verify
CheckAction(lower) ==
    IF Get(lower, "action") # "GetCallerIdentity"
    THEN FormatError("unexpected action parameter in pre-signed URL", "")
    ELSE None

\* http.NewRequest("GET", parsedURL.String(), nil) with the User-Agent header
NewRequest(u) ==
    [ kind |-> "request", version |-> "v1", Method |-> "GET", Scheme |-> u.Scheme,
      Host |-> u.Host, Path |-> u.Path, RawQuery |-> u.RawQuery ]

(***************************************************************************)
(* The generator.                                                          *)
(***************************************************************************)
\* a security token of LongSecurityTokenLen letters and digits
LongSecurityToken == "CAIS<long>"

\* what the generator may be called with: cluster ids, and the credential
\* the STS client holds
GenClusterIDs == { "", "c999", "a+b", "c%zz" }
GenAccessKeys == { "LTAI5t", "LTAI9x" }
GenSecurityTokens == { "", "CAIS/tok+1=", LongSecurityToken }
GenCredentials == [ accessKey : GenAccessKeys, securityToken : GenSecurityTokens ]

\* time.Now().UTC().Format(timeFormat), uuid.NewV4().String() and the
\* base64 of an HMAC-SHA1
GenTimestamp == "2026-11-05T09:23:35Z"
GenNonce == "6ba7b810-9dad-11d1-80b4-00c04fd430c8"
GenSignature == "kR+oN/T8cP0m2bC1u5eq3Yw9ZlA="

\* the verifiers a generated token is shown to
GenVerifiers == [ clusterID : { "c999", "a+b" }, stsEndpoint : { HostDefault, HostVpc } ]

\* len(s) for the strings the generator writes into a query
StrLen(s) ==
    CASE s = "SignatureVersion" -> 16
      [] s = "Format" -> 6
      [] s = "Timestamp" -> 9
      [] s = "AccessKeyId" -> 11
      [] s = "SignatureMethod" -> 15
      [] s = "Version" -> 7
      [] s = "SignatureNonce" -> 14
      [] s = "Action" -> 6
      [] s = "ClusterId" -> 9
      [] s = "SecurityToken" -> 13
      [] s = "Signature" -> 9
      [] s = "1.0" -> 3
      [] s = "JSON" -> 4
      [] s = "2026-11-05T09%3A23%3A35Z" -> 24
      [] s = "LTAI5t" -> 6
      [] s = "LTAI9x" -> 6
      [] s = "HMAC-SHA1" -> 9
      [] s = "2015-04-01" -> 10
      [] s = "6ba7b810-9dad-11d1-80b4-00c04fd430c8" -> 36
      [] s = "GetCallerIdentity" -> 17
      [] s = "c999" -> 4
      [] s = "a+b" -> 3
      [] s = "c%zz" -> 4
      [] s = "CAIS%2Ftok%2B1%3D" -> 17
      [] s = "kR%2BoN%2FT8cP0m2bC1u5eq3Yw9ZlA%3D" -> 34
      [] s = LongSecurityToken -> LongSecurityTokenLen

RECURSIVE QueryLen(_)
\* len of the text key=value&key=value... of a sequence of pairs
QueryLen(q) ==
    IF q = << >> THEN 0
    ELSE StrLen(Head(q)[1]) + 1 + StrLen(Head(q)[2])
         + (IF Len(q) > 1 THEN 1 + QueryLen(Tail(q)) ELSE 0)

\* len(base64.StdEncoding.EncodeToString(b)) for len(b) = n
Base64Len(n) == 4 * ((n + 2) \div 3)

\* url.ParseQuery(queryStr) returns an error when a pair does not unescape
ParseQueryFails(q) == \E i \in 1..Len(q) : Malformed(q[i])

\* queryStr of GetWithSTS: the pairs in the order they are appended; the
\* access key id and the cluster id are appended as they are
QueryStr(clusterID, cred) ==
    << << "SignatureVersion", stsSignVersion >>,
       << "Format", respBodyFormat >>,
       << "Timestamp", QueryEscape(GenTimestamp) >>,
       << "AccessKeyId", cred.accessKey >>,
       << "SignatureMethod", "HMAC-SHA1" >>,
       << "Version", stsAPIVersion >>,
       << "SignatureNonce", GenNonce >>,
       << "Action", "GetCallerIdentity" >>,
       << "ClusterId", clusterID >> >>
    \o (IF cred.securityToken # ""
        THEN << << "SecurityToken", QueryEscape(cred.securityToken) >> >>
        ELSE << >>)

\* generator.GetWithSTS: the token and its expiration, or an error
GetWithSTS(clusterID, cred, now) ==
    LET queryStr == QueryStr(clusterID, cred) IN
    IF ParseQueryFails(queryStr)
    THEN [ token |-> None, expiration |-> 0, err |-> "invalid URL escape" ]
    ELSE LET query == queryStr \o << << "Signature", QueryEscape(GenSignature) >> >>
             getCallerIdentityURL ==
                 [ kind |-> "url", scheme |-> "https", host |-> HostDefault,
                   path |-> "/", query |-> query ]
             urlLen == StsHostLen + 1 + QueryLen(query) IN
         [ token |-> [ pre |-> << v1Prefix >>, encLen |-> Base64Len(urlLen),
                       enc |-> getCallerIdentityURL ],
           expiration |-> now + presignedURLExpiration - 1,
           err |-> None ]

\* generator.GetWithOptions, as far as the token depends on it
GetWithOptions(clusterID, cred, now) ==
    IF clusterID = ""
    THEN [ token |-> None, expiration |-> 0, err |-> "ClusterID is required" ]
    ELSE GetWithSTS(clusterID, cred, now)

RECURSIVE KeysInOrder(_, _)
\* the keys url.ParseQuery puts into the map, in the order of their first
\* appearance in the query, given those already seen
KeysInOrder(q, seen) ==
    IF q = << >> THEN << >>
    ELSE IF Malformed(Head(q)) \/ Head(q)[1] \in seen
    THEN KeysInOrder(Tail(q), seen)
    ELSE << Head(q)[1] >> \o KeysInOrder(Tail(q), seen \cup { Head(q)[1] })

\* the rotations of a sequence
Rotations(s) ==
    { [ i \in 1..Len(s) |-> s[((i + k - 1) % Len(s)) + 1] ] : k \in 0..(Len(s) - 1) }

(***************************************************************************)
(* Helpers of the response handling.                                       *)
(***************************************************************************)
\* arn.Canonicalize: an assumed-role ARN loses its session and becomes the
\* role's ARN; user, role and federated-user ARNs stay as they are; anything
\* else is an error
Canonicalize(a) ==
    IF a.kind # "arn" \/ a.partition # "acs" \/ a.resource = << >>
    THEN [ ok |-> FALSE, arn |-> [ kind |-> "empty" ] ]
    ELSE IF a.resource[1] = "assumed-role"
    THEN IF Len(a.resource) < 3
         THEN [ ok |-> FALSE, arn |-> [ kind |-> "empty" ] ]
         ELSE [ ok |-> TRUE,
                arn |-> [ a EXCEPT !.service = "ram",
                                   !.resource = << "role", a.resource[2] >> ] ]
    ELSE IF a.resource[1] \in { "role", "user", "federated-user" }
    THEN [ ok |-> TRUE, arn |-> a ]
    ELSE [ ok |-> FALSE, arn |-> [ kind |-> "empty" ] ]

\* newOpenAPIErr: the error Verify returns for a failed call of the identity
\* service
newOpenAPIErr(status, body, cause) ==
    [ kind |-> "STSError", status |-> status, body |-> body, cause |-> cause ]

\* the error of arn.Canonicalize is dropped
ParseIdentity_IgnoreCanonicalizeErr(body, keyId) ==
    LET c == Canonicalize(body.Arn)
        userIDParts == body.PrincipalID
        id == [ kind |-> "identity", ARN |-> body.Arn, CanonicalARN |-> c.arn,
                AccountID |-> body.AccountID, UserID |-> "", SessionName |-> "",
                AccessKeyID |-> keyId ] IN
    IF Len(userIDParts) = 2
    THEN [ id |-> [ id EXCEPT !.UserID = userIDParts[1], !.SessionName = userIDParts[2] ],
           err |-> None ]
    ELSE IF Len(userIDParts) = 1
    THEN [ id |-> [ id EXCEPT !.UserID = userIDParts[1] ], err |-> None ]
    ELSE [ id |-> None, err |-> newOpenAPIErr(StatusBadRequest, None, "malformed UserID") ]

\* a PrincipalId of two or more parts is taken as user id and session name
ParseIdentity_TwoOrMore(body, keyId) ==
    LET c == Canonicalize(body.Arn)
        userIDParts == body.PrincipalID
        id == [ kind |-> "identity", ARN |-> body.Arn, CanonicalARN |-> c.arn,
                AccountID |-> body.AccountID, UserID |-> "", SessionName |-> "",
                AccessKeyID |-> keyId ] IN
    IF ~c.ok
    THEN [ id |-> None, err |-> newOpenAPIErr(StatusBadRequest, None, "canonicalize") ]
    ELSE IF Len(userIDParts) >= 2
    THEN [ id |-> [ id EXCEPT !.UserID = userIDParts[1], !.SessionName = userIDParts[2] ],
           err |-> None ]
    ELSE [ id |-> [ id EXCEPT !.UserID = userIDParts[1] ], err |-> None ]

\* the PrincipalId is split before the ARN is canonicalized
ParseIdentity_SplitFirst(body, keyId) ==
    LET c == Canonicalize(body.Arn)
        userIDParts == body.PrincipalID
        id == [ kind |-> "identity", ARN |-> body.Arn, CanonicalARN |-> c.arn,
                AccountID |-> body.AccountID, UserID |-> "", SessionName |-> "",
                AccessKeyID |-> keyId ] IN
    IF Len(userIDParts) \notin {1, 2}
    THEN [ id |-> None, err |-> newOpenAPIErr(StatusBadRequest, None, "malformed UserID") ]
    ELSE IF ~c.ok
    THEN [ id |-> None, err |-> newOpenAPIErr(StatusBadRequest, None, "canonicalize") ]
    ELSE IF Len(userIDParts) = 2
    THEN [ id |-> [ id EXCEPT !.UserID = userIDParts[1], !.SessionName = userIDParts[2] ],
           err |-> None ]
    ELSE [ id |-> [ id EXCEPT !.UserID = userIDParts[1] ], err |-> None ]

\* the Identity Verify builds from a decoded response body, or the error
ParseIdentity(body, keyId) ==
    LET c == Canonicalize(body.Arn)
        userIDParts == body.PrincipalID
        id == [ kind |-> "identity", ARN |-> body.Arn, CanonicalARN |-> c.arn,
                AccountID |-> body.AccountID, UserID |-> "", SessionName |-> "",
                AccessKeyID |-> keyId ] IN
    IF ~c.ok
    THEN [ id |-> None, err |-> newOpenAPIErr(StatusBadRequest, None, "canonicalize") ]
    ELSE IF Len(userIDParts) = 2
    THEN [ id |-> [ id EXCEPT !.UserID = userIDParts[1], !.SessionName = userIDParts[2] ],
           err |-> None ]
    ELSE IF Len(userIDParts) = 1
    THEN [ id |-> [ id EXCEPT !.UserID = userIDParts[1] ], err |-> None ]
    ELSE [ id |-> None, err |-> newOpenAPIErr(StatusBadRequest, None, "malformed UserID") ]

\* the body is decoded whatever the status is
HandleResult_NoStatusCheck(resp, keyId) ==
    IF resp.kind # "response"
    THEN [ id |-> None, err |-> newOpenAPIErr(StatusBadRequest, None, resp.kind) ]
    ELSE IF resp.Body.kind = "unreadable"
    THEN [ id |-> None, err |-> newOpenAPIErr(StatusBadRequest, None, "error reading HTTP result") ]
    ELSE IF resp.Body.kind # "json"
    THEN [ id |-> None, err |-> newOpenAPIErr(StatusBadRequest, None, "unmarshal") ]
    ELSE ParseIdentity(resp.Body, keyId)

\* what Verify returns for the outcome of client.Do
HandleResult(resp, keyId) ==
    IF resp.kind # "response"
    THEN [ id |-> None, err |-> newOpenAPIErr(StatusBadRequest, None, resp.kind) ]
    ELSE IF resp.StatusCode # StatusOK
    THEN IF resp.Body.kind = "unreadable"
         THEN [ id |-> None, err |-> newOpenAPIErr(resp.StatusCode, None, "") ]
         ELSE [ id |-> None, err |-> newOpenAPIErr(resp.StatusCode, resp.Body.kind, "") ]
    ELSE IF resp.Body.kind = "unreadable"
    THEN [ id |-> None, err |-> newOpenAPIErr(StatusBadRequest, None, "error reading HTTP result") ]
    ELSE IF resp.Body.kind # "json"
    THEN [ id |-> None, err |-> newOpenAPIErr(StatusBadRequest, None, "unmarshal") ]
    ELSE ParseIdentity(resp.Body, keyId)

(***************************************************************************)
(* The dynamic file mapper's store: the mapping file and what is read from *)
(* it.                                                                     *)
(***************************************************************************)
Absent == [ kind |-> "absent" ]

UserArn(name) ==
    [ kind |-> "arn", partition |-> "acs", service |-> "ram", account |-> Account,
      resource |-> << "user", name >> ]
RoleArn(name) ==
    [ kind |-> "arn", partition |-> "acs", service |-> "ram", account |-> Account,
      resource |-> << "role", name >> ]
\* the ARN "" of an entry that gives none
NoArn == [ kind |-> "empty" ]

\* a mapping file with users, roles and accounts
FileA ==
    [ kind |-> "json",
      mapUsers |-> << [ UserARN |-> UserArn("Alice"), Username |-> "alice" ] >>,
      mapRoles |-> << [ RoleARN |-> RoleArn("Admin"), Username |-> "admin" ] >>,
      mapAccounts |-> << Account >> ]
\* the same file after alice was removed and bob added
FileB ==
    [ kind |-> "json",
      mapUsers |-> << [ UserARN |-> UserArn("bob"), Username |-> "bob" ] >>,
      mapRoles |-> << >>,
      mapAccounts |-> << >> ]
\* a file with a user entry and a role entry that lack their ARN
FilePartial ==
    [ kind |-> "json",
      mapUsers |-> << [ UserARN |-> UserArn("bob"), Username |-> "bob" ],
                      [ UserARN |-> NoArn, Username |-> "ghost" ] >>,
      mapRoles |-> << [ RoleARN |-> NoArn, Username |-> "nobody" ] >>,
      mapAccounts |-> << Account >> ]
\* a file of length 0, a file that is not JSON, and a file os.ReadFile fails on
FileEmpty == [ kind |-> "empty" ]
FileGarbage == [ kind |-> "garbage" ]
FileUnreadable == [ kind |-> "unreadable" ]

Contents == { FileA, FileB, FilePartial, FileEmpty, FileGarbage, FileUnreadable }

\* strings.ToLower on an ARN
LowerArn(a) ==
    IF a.kind # "arn" THEN a
    ELSE [ a EXCEPT !.resource = [ i \in DOMAIN a.resource |-> ToLower(a.resource[i]) ] ]

\* the key saveMap files an entry under: the error of Canonicalize is dropped
MapKey(a) == Canonicalize(LowerArn(a)).arn

RECURSIVE KeepUsers(_)
\* the user mappings ParseMap keeps
KeepUsers(l) ==
    IF l = << >> THEN << >>
    ELSE IF Head(l).UserARN = NoArn THEN KeepUsers(Tail(l))
    ELSE << Head(l) >> \o KeepUsers(Tail(l))

RECURSIVE KeepRoles(_)
\* the role mappings ParseMap keeps
KeepRoles(l) ==
    IF l = << >> THEN << >>
    ELSE IF Head(l).RoleARN = NoArn THEN KeepRoles(Tail(l))
    ELSE << Head(l) >> \o KeepRoles(Tail(l))

\* an invalid JSON file gives no error
ParseMap_LenientUnmarshal(f) ==
    IF f.kind \in { "absent", "unreadable" }
    THEN [ userMappings |-> << >>, roleMappings |-> << >>, aliAccounts |-> << >>,
           err |-> [ kind |-> "read" ] ]
    ELSE IF f.kind \in { "empty", "garbage" }
    THEN [ userMappings |-> << >>, roleMappings |-> << >>, aliAccounts |-> << >>,
           err |-> None ]
    ELSE LET um == KeepUsers(f.mapUsers)
             rm == KeepRoles(f.mapRoles)
             errs == (Len(f.mapUsers) - Len(um)) + (Len(f.mapRoles) - Len(rm)) IN
         [ userMappings |-> um, roleMappings |-> rm, aliAccounts |-> f.mapAccounts,
           err |-> IF errs > 0 THEN [ kind |-> "ErrParsingMap", errors |-> errs ]
                   ELSE None ]

\* ParseMap: the mappings read from the file and the error
ParseMap(f) ==
    IF f.kind \in { "absent", "unreadable" }
    THEN [ userMappings |-> << >>, roleMappings |-> << >>, aliAccounts |-> << >>,
           err |-> [ kind |-> "read" ] ]
    ELSE IF f.kind = "empty"
    THEN [ userMappings |-> << >>, roleMappings |-> << >>, aliAccounts |-> << >>,
           err |-> None ]
    ELSE IF f.kind = "garbage"
    THEN [ userMappings |-> << >>, roleMappings |-> << >>, aliAccounts |-> << >>,
           err |-> [ kind |-> "unmarshal" ] ]
    ELSE LET um == KeepUsers(f.mapUsers)
             rm == KeepRoles(f.mapRoles)
             errs == (Len(f.mapUsers) - Len(um)) + (Len(f.mapRoles) - Len(rm)) IN
         [ userMappings |-> um, roleMappings |-> rm, aliAccounts |-> f.mapAccounts,
           err |-> IF errs > 0 THEN [ kind |-> "ErrParsingMap", errors |-> errs ]
                   ELSE None ]

\* the mappings of a load are saved also when entries were dropped
LoadSaves_Survivors(r) == r.err = None \/ r.err.kind = "ErrParsingMap"

\* loadDynamicFile calls saveMap only when ParseMap gave no error
LoadSaves(r) == r.err = None

EmptyMap == [ x \in {} |-> "" ]

RECURSIVE PutUsers(_, _)
\* ms.users after the loop over userMappings
PutUsers(m, l) ==
    IF l = << >> THEN m
    ELSE LET k == MapKey(Head(l).UserARN) IN
         PutUsers([ x \in DOMAIN m \cup { k } |-> IF x = k THEN Head(l).Username ELSE m[x] ],
                  Tail(l))

RECURSIVE PutRoles(_, _)
\* ms.roles after the loop over roleMappings
PutRoles(m, l) ==
    IF l = << >> THEN m
    ELSE LET k == MapKey(Head(l).RoleARN) IN
         PutRoles([ x \in DOMAIN m \cup { k } |-> IF x = k THEN Head(l).Username ELSE m[x] ],
                  Tail(l))

\* ms.aliAccounts after the loop over aliAccounts
PutAccounts(set, l) == set \cup { l[i] : i \in 1..Len(l) }

\* the three maps of the store
Snapshot == [ users |-> users, roles |-> roles, aliAccounts |-> aliAccounts ]

EmptySnapshot == [ users |-> EmptyMap, roles |-> EmptyMap, aliAccounts |-> {} ]

\* the maps saveMap builds from the mappings of a ParseMap result
SnapshotOf(r) ==
    [ users |-> PutUsers(EmptyMap, r.userMappings),
      roles |-> PutRoles(EmptyMap, r.roleMappings),
      aliAccounts |-> PutAccounts({}, r.aliAccounts) ]

\* the canonical ARNs and the account id that are looked up
LookupArns == { MapKey(UserArn("Alice")), MapKey(RoleArn("Admin")) }

(***************************************************************************)
(* Verify, step by step.                                                   *)
(***************************************************************************)
Fail(e) ==
    /\ pc' = "done"
    /\ ret' = [ id |-> None, err |-> e ]

\* a caller hands a token to Verify
Call ==
    /\ pc = "idle"
    /\ \E t \in Tokens : token' = t
    /\ pc' = "decode"
    /\ UNCHANGED << v, tokenBytes, parsedURL, accessKeyId, req, response, sent, ret >>
    /\ UNCHANGED otherVars

\* length, prefix and base64 checks
DecodeToken ==
    /\ pc = "decode"
    /\ IF TokenLen(token) > maxTokenLenBytes
       THEN Fail(FormatError("token is too large", "")) /\ UNCHANGED tokenBytes
       ELSE IF ~HasPrefix(token, v1Prefix) /\ ~HasPrefix(token, v2Prefix)
       THEN Fail(FormatError("token is missing expected prefix", "")) /\ UNCHANGED tokenBytes
       ELSE LET d == Base64Decode(TrimPrefix(TrimPrefix(token, v1Prefix), v2Prefix)) IN
            IF ~d.ok
            THEN Fail(FormatError("illegal base64 data", "")) /\ UNCHANGED tokenBytes
            ELSE /\ tokenBytes' = d.bytes
                 /\ pc' = IF HasPrefix(token, v2Prefix) THEN "parseV2" ELSE "parseV1"
                 /\ UNCHANGED ret
    /\ UNCHANGED << v, token, parsedURL, accessKeyId, req, response, sent >>
    /\ UNCHANGED otherVars

\* a v1 token: the URL, its scheme, host and path; the host is replaced by
\* the verifier's endpoint
ParseV1URL ==
    /\ pc = "parseV1"
    /\ LET p == URLParse(tokenBytes) IN
       IF ~p.ok
       THEN Fail(FormatError("url parse", "")) /\ UNCHANGED parsedURL
       ELSE IF p.url.Scheme # "https"
       THEN Fail(FormatError("unexpected scheme in pre-signed URL", p.url.Scheme))
            /\ UNCHANGED parsedURL
       ELSE IF verifyHost(p.url.Host) # None
       THEN Fail(verifyHost(p.url.Host)) /\ UNCHANGED parsedURL
       ELSE LET u == RewriteHost(p.url, v) IN
            IF u.Path # "/"
            THEN Fail(FormatError("unexpected path in pre-signed URL", ""))
                 /\ parsedURL' = u
            ELSE /\ parsedURL' = u
                 /\ pc' = "validate"
                 /\ UNCHANGED ret
    /\ UNCHANGED << v, token, tokenBytes, accessKeyId, req, response, sent >>
    /\ UNCHANGED otherVars

\* a v1 token: the query parameters, the action and the cluster id; then the
\* request is built
ValidateIn(order) ==
    LET queryParams == Query(parsedURL)
        r == RangeQueryParams(queryParams, order, 1, EmptyValues)
        queryParamsLower == r.lower IN
    /\ IF r.err # None
       THEN Fail(r.err) /\ UNCHANGED << accessKeyId, req >>
       ELSE IF CheckAction(queryParamsLower) # None
       THEN Fail(CheckAction(queryParamsLower)) /\ UNCHANGED << accessKeyId, req >>
       ELSE IF verifyClusterID(v, Get(queryParamsLower, "clusterid")) # None
       THEN Fail(verifyClusterID(v, Get(queryParamsLower, "clusterid")))
            /\ UNCHANGED << accessKeyId, req >>
       ELSE /\ accessKeyId' = Get(queryParamsLower, "accesskeyid")
            /\ req' = NewRequest(parsedURL)
            /\ pc' = "do"
            /\ UNCHANGED ret
    /\ UNCHANGED << v, token, tokenBytes, parsedURL, response, sent >>
    /\ UNCHANGED otherVars

\* the keys of the query are visited in any order a range over the map may take
ValidateQuery ==
    /\ pc = "validate"
    /\ \E order \in RangeOrders(DOMAIN Query(parsedURL)) : ValidateIn(order)

\* a v2 token: parseV2Token yields an error, or the access key id and the
\* request
ParseV2Token ==
    /\ pc = "parseV2"
    /\ \/ Fail(FormatError("parse v2 token", "")) /\ UNCHANGED << accessKeyId, req >>
       \/ /\ accessKeyId' = "LTAI5t"
          /\ req' = [ kind |-> "request", version |-> "v2", Method |-> "GET",
                      Scheme |-> "https", Host |-> v.stsEndpoint, Path |-> "/",
                      RawQuery |-> << >> ]
          /\ pc' = "do"
          /\ UNCHANGED ret
    /\ UNCHANGED << v, token, tokenBytes, parsedURL, response, sent >>
    /\ UNCHANGED otherVars

\* client.Do(req): the request goes out, and the transport fails or the
\* identity service answers
Do ==
    /\ pc = "do"
    /\ sent' = Append(sent, req)
    /\ \E o \in DoOutcomes : response' = o
    /\ pc' = "handle"
    /\ UNCHANGED << v, token, tokenBytes, parsedURL, accessKeyId, req, ret >>
    /\ UNCHANGED otherVars

\* the rest of Verify: status, body, identity
HandleResponse ==
    /\ pc = "handle"
    /\ ret' = HandleResult(response, accessKeyId)
    /\ pc' = "done"
    /\ UNCHANGED << v, token, tokenBytes, parsedURL, accessKeyId, req, response, sent >>
    /\ UNCHANGED otherVars

\* the caller takes the result; the verifier keeps no state between calls
Return ==
    /\ pc = "done"
    /\ pc' = "idle"
    /\ token' = None
    /\ tokenBytes' = None
    /\ parsedURL' = None
    /\ accessKeyId' = ""
    /\ req' = None
    /\ response' = None
    /\ sent' = << >>
    /\ ret' = NoReturn
    /\ UNCHANGED v
    /\ UNCHANGED otherVars

(***************************************************************************)
(* The dynamic file mapper's store: the load-and-watch goroutine.          *)
(***************************************************************************)
\* the locals of one load: where loadDynamicFile returns to, the event that
\* is handled, the content ParseMap read, its error and the mappings saveMap
\* is called with
Locals(to, ev) ==
    [ kind |-> "locals", ret |-> to, ev |-> ev, gone |-> FALSE,
      content |-> None, err |-> None, save |-> None ]

\* sync.RWMutex: RLock does not wait for readers
CanRLock_Always == TRUE

\* sync.RWMutex: RLock waits while a writer holds the mutex
CanRLock == ~mutex.writer

\* sync.RWMutex: Lock waits while a writer or a reader holds the mutex
CanLock == ~mutex.writer /\ mutex.readers = 0

\* wait.Until: unless stopCh is closed, the function is entered and calls
\* loadDynamicFile
UntilEnter ==
    /\ wpc = "start"
    /\ IF stopCh
       THEN wpc' = "exited" /\ UNCHANGED wl
       ELSE wpc' = "stat" /\ wl' = Locals("newWatcher", "none")
    /\ UNCHANGED << file, users, roles, aliAccounts, mutex, stopCh, watcher, rpc, rl >>
    /\ UNCHANGED << verifyVars, gen, ctrlVars >>

\* waitUntilFileAvailable: one os.Stat; while the file does not exist the
\* goroutine sleeps and tries again
WaitUntilFileAvailable ==
    /\ wpc = "stat"
    /\ wpc' = IF file = Absent THEN "stat" ELSE "parse"
    /\ UNCHANGED << file, users, roles, aliAccounts, mutex, stopCh, watcher, wl, rpc, rl >>
    /\ UNCHANGED << verifyVars, gen, ctrlVars >>

\* loadDynamicFile after the wait: ParseMap, then saveMap or the return of
\* the error
LoadDynamicFile ==
    /\ wpc = "parse"
    /\ LET r == ParseMap(file) IN
       IF LoadSaves(r)
       THEN /\ wl' = [ wl EXCEPT !.content = file, !.err = r.err,
                                 !.save = [ userMappings |-> r.userMappings,
                                            roleMappings |-> r.roleMappings,
                                            aliAccounts |-> r.aliAccounts ] ]
            /\ wpc' = "lock"
       ELSE /\ wl' = [ wl EXCEPT !.content = file, !.err = r.err ]
            /\ wpc' = wl.ret
    /\ UNCHANGED << file, users, roles, aliAccounts, mutex, stopCh, watcher, rpc, rl >>
    /\ UNCHANGED << verifyVars, gen, ctrlVars >>

\* saveMap: ms.mutex.Lock()
SaveMapLock ==
    /\ wpc = "lock"
    /\ CanLock
    /\ mutex' = [ mutex EXCEPT !.writer = TRUE ]
    /\ wpc' = "make"
    /\ UNCHANGED << file, users, roles, aliAccounts, stopCh, watcher, wl, rpc, rl >>
    /\ UNCHANGED << verifyVars, gen, ctrlVars >>

\* the maps are not made anew: saveMap adds to the old ones
SaveMapMake_Keep ==
    /\ wpc = "make"
    /\ wpc' = "putUsers"
    /\ UNCHANGED << file, users, roles, aliAccounts, mutex, stopCh, watcher, wl, rpc, rl >>
    /\ UNCHANGED << verifyVars, gen, ctrlVars >>

\* only ms.users is made anew
SaveMapMake_KeepRoles ==
    /\ wpc = "make"
    /\ users' = EmptyMap
    /\ wpc' = "putUsers"
    /\ UNCHANGED << file, roles, aliAccounts, mutex, stopCh, watcher, wl, rpc, rl >>
    /\ UNCHANGED << verifyVars, gen, ctrlVars >>

\* saveMap: the three maps are made anew
SaveMapMake ==
    /\ wpc = "make"
    /\ users' = EmptyMap
    /\ roles' = EmptyMap
    /\ aliAccounts' = {}
    /\ wpc' = "putUsers"
    /\ UNCHANGED << file, mutex, stopCh, watcher, wl, rpc, rl >>
    /\ UNCHANGED << verifyVars, gen, ctrlVars >>

\* saveMap: the loop over userMappings
SaveMapUsers ==
    /\ wpc = "putUsers"
    /\ users' = PutUsers(users, wl.save.userMappings)
    /\ wpc' = "putRoles"
    /\ UNCHANGED << file, roles, aliAccounts, mutex, stopCh, watcher, wl, rpc, rl >>
    /\ UNCHANGED << verifyVars, gen, ctrlVars >>

\* saveMap: the loop over roleMappings
SaveMapRoles ==
    /\ wpc = "putRoles"
    /\ roles' = PutRoles(roles, wl.save.roleMappings)
    /\ wpc' = "putAccounts"
    /\ UNCHANGED << file, users, aliAccounts, mutex, stopCh, watcher, wl, rpc, rl >>
    /\ UNCHANGED << verifyVars, gen, ctrlVars >>

\* saveMap: the loop over aliAccounts, the deferred Unlock and the return
SaveMapAccounts ==
    /\ wpc = "putAccounts"
    /\ aliAccounts' = PutAccounts(aliAccounts, wl.save.aliAccounts)
    /\ mutex' = [ mutex EXCEPT !.writer = FALSE ]
    /\ wl' = [ wl EXCEPT !.save = None ]
    /\ wpc' = wl.ret
    /\ UNCHANGED << file, users, roles, stopCh, watcher, rpc, rl >>
    /\ UNCHANGED << verifyVars, gen, ctrlVars >>

\* fsnotify.NewWatcher and watcher.Add: Add fails when the file does not
\* exist; both errors are only logged, and Add on the nil watcher of a failed
\* NewWatcher dereferences it
NewWatcher ==
    /\ wpc = "newWatcher"
    /\ \/ /\ watcher' = [ kind |-> "watcher", added |-> file # Absent,
                          Events |-> << >>, Errors |-> 0 ]
          /\ wpc' = "select"
       \/ /\ watcher' = None
          /\ wpc' = "panic"
    /\ UNCHANGED << file, users, roles, aliAccounts, mutex, stopCh, wl, rpc, rl >>
    /\ UNCHANGED << verifyVars, gen, ctrlVars >>

\* select: stopCh is closed, the function returns
SelectStop ==
    /\ wpc = "select"
    /\ stopCh
    /\ wpc' = "close"
    /\ UNCHANGED << file, users, roles, aliAccounts, mutex, stopCh, watcher, wl, rpc, rl >>
    /\ UNCHANGED << verifyVars, gen, ctrlVars >>

\* select: a WRITE or CREATE event, loadDynamicFile is called
HandleWriteCreate ==
    /\ wpc = "select"
    /\ watcher.Events # << >>
    /\ Head(watcher.Events) \in { "WRITE", "CREATE" }
    /\ watcher' = [ watcher EXCEPT !.Events = Tail(@) ]
    /\ wl' = Locals("select", Head(watcher.Events))
    /\ wpc' = "stat"
    /\ UNCHANGED << file, users, roles, aliAccounts, mutex, stopCh, rpc, rl >>
    /\ UNCHANGED << verifyVars, gen, ctrlVars >>

\* the file is not looked for: the maps are emptied on every RENAME or REMOVE
HandleRenameRemove_NoStat ==
    /\ wpc = "select"
    /\ watcher.Events # << >>
    /\ Head(watcher.Events) \in { "RENAME", "REMOVE" }
    /\ watcher' = [ watcher EXCEPT !.Events = Tail(@) ]
    /\ wl' = [ Locals("close", Head(watcher.Events)) EXCEPT
                 !.gone = (file = Absent),
                 !.save = [ userMappings |-> << >>, roleMappings |-> << >>,
                            aliAccounts |-> << >> ] ]
    /\ wpc' = "lock"
    /\ UNCHANGED << file, users, roles, aliAccounts, mutex, stopCh, rpc, rl >>
    /\ UNCHANGED << verifyVars, gen, ctrlVars >>

\* select: a RENAME or REMOVE event; os.Stat, saveMap with empty mappings
\* when the file does not exist, and the function returns
HandleRenameRemove ==
    /\ wpc = "select"
    /\ watcher.Events # << >>
    /\ Head(watcher.Events) \in { "RENAME", "REMOVE" }
    /\ watcher' = [ watcher EXCEPT !.Events = Tail(@) ]
    /\ IF file = Absent
       THEN /\ wl' = [ Locals("close", Head(watcher.Events)) EXCEPT
                         !.gone = TRUE,
                         !.save = [ userMappings |-> << >>, roleMappings |-> << >>,
                                    aliAccounts |-> << >> ] ]
            /\ wpc' = "lock"
       ELSE /\ wl' = Locals("close", Head(watcher.Events))
            /\ wpc' = "close"
    /\ UNCHANGED << file, users, roles, aliAccounts, mutex, stopCh, rpc, rl >>
    /\ UNCHANGED << verifyVars, gen, ctrlVars >>

\* select: an error of the watcher is logged
HandleWatcherError ==
    /\ wpc = "select"
    /\ watcher.Errors > 0
    /\ watcher' = [ watcher EXCEPT !.Errors = @ - 1 ]
    /\ UNCHANGED << file, users, roles, aliAccounts, mutex, stopCh, wpc, wl, rpc, rl >>
    /\ UNCHANGED << verifyVars, gen, ctrlVars >>

\* the deferred watcher.Close() as the function returns
CloseWatcher ==
    /\ wpc = "close"
    /\ watcher' = None
    /\ wpc' = "backoff"
    /\ UNCHANGED << file, users, roles, aliAccounts, mutex, stopCh, wl, rpc, rl >>
    /\ UNCHANGED << verifyVars, gen, ctrlVars >>

\* wait.Until between two calls of the function: the period passes, or
\* stopCh is closed
UntilBackoff ==
    /\ wpc = "backoff"
    /\ \/ wpc' = "start"
       \/ stopCh /\ wpc' = "exited"
    /\ UNCHANGED << file, users, roles, aliAccounts, mutex, stopCh, watcher, wl, rpc, rl >>
    /\ UNCHANGED << verifyVars, gen, ctrlVars >>

(***************************************************************************)
(* The environment of the goroutine: the file system and stopCh.           *)
(***************************************************************************)
\* the watcher reports what happens to the file it was added for
Watching == watcher # None /\ watcher.added

\* the content of the file changes; which of WRITE and CREATE a watcher
\* reports for it is the backend's choice
WriteFile ==
    /\ file # Absent
    /\ \E c \in Contents \ { file } : file' = c
    /\ IF Watching
       THEN /\ Len(watcher.Events) < MaxEvents
            /\ \E op \in { "WRITE", "CREATE" } :
                 watcher' = [ watcher EXCEPT !.Events = Append(@, op) ]
       ELSE UNCHANGED watcher
    /\ UNCHANGED << users, roles, aliAccounts, mutex, stopCh, wpc, wl, rpc, rl >>
    /\ UNCHANGED << verifyVars, gen, ctrlVars >>

\* the file is removed or renamed away; the watch goes with it
RemoveFile ==
    /\ file # Absent
    /\ file' = Absent
    /\ IF Watching
       THEN /\ Len(watcher.Events) < MaxEvents
            /\ \E op \in { "REMOVE", "RENAME" } :
                 watcher' = [ watcher EXCEPT !.Events = Append(@, op), !.added = FALSE ]
       ELSE UNCHANGED watcher
    /\ UNCHANGED << users, roles, aliAccounts, mutex, stopCh, wpc, wl, rpc, rl >>
    /\ UNCHANGED << verifyVars, gen, ctrlVars >>

\* a file appears at the path
CreateFile ==
    /\ file = Absent
    /\ \E c \in Contents : file' = c
    /\ UNCHANGED << users, roles, aliAccounts, mutex, stopCh, watcher, wpc, wl, rpc, rl >>
    /\ UNCHANGED << verifyVars, gen, ctrlVars >>

\* the watcher has an error to report
WatcherFails ==
    /\ watcher # None
    /\ watcher.Errors < MaxWatcherErrors
    /\ watcher' = [ watcher EXCEPT !.Errors = @ + 1 ]
    /\ UNCHANGED << file, users, roles, aliAccounts, mutex, stopCh, wpc, wl, rpc, rl >>
    /\ UNCHANGED << verifyVars, gen, ctrlVars >>

\* close(stopCh)
Stop ==
    /\ ~stopCh
    /\ stopCh' = TRUE
    /\ UNCHANGED << file, users, roles, aliAccounts, mutex, watcher, wpc, wl, rpc, rl >>
    /\ UNCHANGED << verifyVars, gen, ctrlVars >>

(***************************************************************************)
(* A lookup against the store: users, then roles, then the account set.    *)
(***************************************************************************)
\* the lookup starts for a canonical ARN
Map ==
    /\ rpc = "idle"
    /\ \E a \in LookupArns :
         rl' = [ kind |-> "lookup", arn |-> a, seen |-> None, hybrid |-> FALSE,
                 found |-> "none" ]
    /\ rpc' = "userRLock"
    /\ UNCHANGED << file, users, roles, aliAccounts, mutex, stopCh, watcher, wpc, wl >>
    /\ UNCHANGED << verifyVars, gen, ctrlVars >>

\* UserMapping: ms.mutex.RLock()
UserMappingRLock ==
    /\ rpc = "userRLock"
    /\ CanRLock
    /\ mutex' = [ mutex EXCEPT !.readers = @ + 1 ]
    /\ rpc' = "userRead"
    /\ UNCHANGED << file, users, roles, aliAccounts, stopCh, watcher, wpc, wl, rl >>
    /\ UNCHANGED << verifyVars, gen, ctrlVars >>

\* UserMapping: the read of ms.users and the deferred RUnlock
UserMapping ==
    /\ rpc = "userRead"
    /\ mutex' = [ mutex EXCEPT !.readers = @ - 1 ]
    /\ IF rl.arn \in DOMAIN users
       THEN rl' = [ rl EXCEPT !.seen = Snapshot, !.found = "user" ] /\ rpc' = "done"
       ELSE rl' = [ rl EXCEPT !.seen = Snapshot ] /\ rpc' = "roleRLock"
    /\ UNCHANGED << file, users, roles, aliAccounts, stopCh, watcher, wpc, wl >>
    /\ UNCHANGED << verifyVars, gen, ctrlVars >>

\* RoleMapping: ms.mutex.RLock()
RoleMappingRLock ==
    /\ rpc = "roleRLock"
    /\ CanRLock
    /\ mutex' = [ mutex EXCEPT !.readers = @ + 1 ]
    /\ rpc' = "roleRead"
    /\ UNCHANGED << file, users, roles, aliAccounts, stopCh, watcher, wpc, wl, rl >>
    /\ UNCHANGED << verifyVars, gen, ctrlVars >>

\* RoleMapping: the read of ms.roles and the deferred RUnlock
RoleMapping ==
    /\ rpc = "roleRead"
    /\ mutex' = [ mutex EXCEPT !.readers = @ - 1 ]
    /\ LET h == rl.hybrid \/ Snapshot # rl.seen IN
       IF rl.arn \in DOMAIN roles
       THEN rl' = [ rl EXCEPT !.hybrid = h, !.found = "role" ] /\ rpc' = "done"
       ELSE rl' = [ rl EXCEPT !.hybrid = h ] /\ rpc' = "accountRLock"
    /\ UNCHANGED << file, users, roles, aliAccounts, stopCh, watcher, wpc, wl >>
    /\ UNCHANGED << verifyVars, gen, ctrlVars >>

\* AliAccount: ms.mutex.RLock()
AliAccountRLock ==
    /\ rpc = "accountRLock"
    /\ CanRLock
    /\ mutex' = [ mutex EXCEPT !.readers = @ + 1 ]
    /\ rpc' = "accountRead"
    /\ UNCHANGED << file, users, roles, aliAccounts, stopCh, watcher, wpc, wl, rl >>
    /\ UNCHANGED << verifyVars, gen, ctrlVars >>

\* AliAccount: the read of ms.aliAccounts and the deferred RUnlock
AliAccount ==
    /\ rpc = "accountRead"
    /\ mutex' = [ mutex EXCEPT !.readers = @ - 1 ]
    /\ rl' = [ rl EXCEPT !.hybrid = rl.hybrid \/ Snapshot # rl.seen,
                         !.found = IF rl.arn.account \in aliAccounts
                                   THEN "account" ELSE "notMapped" ]
    /\ rpc' = "done"
    /\ UNCHANGED << file, users, roles, aliAccounts, stopCh, watcher, wpc, wl >>
    /\ UNCHANGED << verifyVars, gen, ctrlVars >>

\* the lookup returns
MapReturn ==
    /\ rpc = "done"
    /\ rpc' = "idle"
    /\ rl' = None
    /\ UNCHANGED << file, users, roles, aliAccounts, mutex, stopCh, watcher, wpc, wl >>
    /\ UNCHANGED << verifyVars, gen, ctrlVars >>

DynInit ==
    /\ v = [ clusterID |-> "c999", stsEndpoint |-> HostVpc ]
    /\ VerifyIdle
    /\ GenIdle
    /\ DynIdle
    /\ CtrlIdle

DynNext ==
    \/ UntilEnter
    \/ WaitUntilFileAvailable
    \/ LoadDynamicFile
    \/ SaveMapLock
    \/ SaveMapMake
    \/ SaveMapUsers
    \/ SaveMapRoles
    \/ SaveMapAccounts
    \/ NewWatcher
    \/ SelectStop
    \/ HandleWriteCreate
    \/ HandleRenameRemove
    \/ HandleWatcherError
    \/ CloseWatcher
    \/ UntilBackoff
    \/ WriteFile
    \/ RemoveFile
    \/ CreateFile
    \/ WatcherFails
    \/ Stop
    \/ Map
    \/ UserMappingRLock
    \/ UserMapping
    \/ RoleMappingRLock
    \/ RoleMapping
    \/ AliAccountRLock
    \/ AliAccount
    \/ MapReturn

DynSpec == DynInit /\ [][DynNext]_vars

(***************************************************************************)
(* Properties of the dynamic file mapper's store.                          *)
(***************************************************************************)
\* a lookup holds the read lock
ReaderInside == rpc \in { "userRead", "roleRead", "accountRead" }

\* saveMap is between its Lock and its Unlock
SaveInterior == wpc \in { "make", "putUsers", "putRoles", "putAccounts" }

\* the maps a completed saveMap can leave: those of a file that loads, and
\* the empty ones
CompleteSnapshots ==
    { EmptySnapshot }
    \cup { SnapshotOf(ParseMap(c)) : c \in { x \in Contents : ParseMap(x).err = None } }

\* C15: a UserMapping, RoleMapping or AliAccount call reads the maps only
\* while no saveMap is between its Lock and its Unlock, so what it reads is
\* the outcome of a completed replacement.
C15_NoHalfBuiltRead ==
    ReaderInside =>
        /\ ~mutex.writer
        /\ ~SaveInterior
        /\ Snapshot \in CompleteSnapshots

\* a lookup waits for the read lock while saveMap has filled users but not
\* yet roles and accounts
C15_Witness ==
    /\ wpc = "putRoles"
    /\ rpc \in { "userRLock", "roleRLock", "accountRLock" }
    /\ Snapshot \notin CompleteSnapshots

\* C16: a lookup that consults users, then roles, then the account set reads
\* all of them from the same maps.
C16_LookupFromOneSnapshot ==
    rpc = "done" => ~rl.hybrid

\* the keys and accounts a mapping file gives
UserKeys(c) ==
    IF c.kind # "json" THEN {}
    ELSE { MapKey(c.mapUsers[i].UserARN) : i \in 1..Len(c.mapUsers) }
RoleKeys(c) ==
    IF c.kind # "json" THEN {}
    ELSE { MapKey(c.mapRoles[i].RoleARN) : i \in 1..Len(c.mapRoles) }
AccountsOf(c) ==
    IF c.kind # "json" THEN {}
    ELSE { c.mapAccounts[i] : i \in 1..Len(c.mapAccounts) }

\* the loop is back at its select after the loadDynamicFile of a WRITE or
\* CREATE event
HandledWriteCreate ==
    /\ wpc = "select"
    /\ wl.ev \in { "WRITE", "CREATE" }

\* C17: when the loop has handled a WRITE or CREATE event and the file it
\* read was well-formed, the maps hold exactly the entries of that file: a
\* key resolves if and only if the file has an entry for it.
C17_SnapshotEqualsFile ==
    (HandledWriteCreate /\ ParseMap(wl.content).err = None) =>
        /\ DOMAIN users = UserKeys(wl.content)
        /\ DOMAIN roles = RoleKeys(wl.content)
        /\ aliAccounts = AccountsOf(wl.content)
        /\ Snapshot = SnapshotOf(ParseMap(wl.content))

\* the file was overwritten with FileB and the event handled: bob resolves,
\* alice does not
C17_Witness ==
    /\ HandledWriteCreate
    /\ wl.content = FileB
    /\ file = FileB
    /\ MapKey(UserArn("bob")) \in DOMAIN users
    /\ MapKey(UserArn("Alice")) \notin DOMAIN users

RenameRemove == { "RENAME", "REMOVE" }

\* C18: the step that takes a RENAME or REMOVE event calls saveMap with empty
\* mappings when the file does not exist, and else leaves the maps alone; in
\* both cases the function then returns, the watcher is closed, and the next
\* thing the goroutine does after the period is loadDynamicFile.
C18_RenameRemove ==
    /\ [][ (wpc = "select" /\ wpc' # "select" /\ wl'.ev \in RenameRemove) =>
             /\ UNCHANGED << users, roles, aliAccounts >>
             /\ wl'.ret = "close"
             /\ IF file = Absent
                THEN /\ wpc' = "lock"
                     /\ wl'.gone
                     /\ SnapshotOf(wl'.save) = EmptySnapshot
                ELSE /\ wpc' = "close"
                     /\ ~wl'.gone ]_vars
    /\ []((wpc \in { "close", "backoff" } /\ wl.ev \in RenameRemove /\ wl.gone)
            => Snapshot = EmptySnapshot)
    /\ [][ wpc = "close" => wpc' \in { "close", "backoff" } ]_vars
    /\ [][ wpc = "backoff" => wpc' \in { "backoff", "start", "exited" } ]_vars
    /\ [][ wpc = "start" =>
             /\ wpc' \in { "start", "stat", "exited" }
             /\ wpc' = "stat" => wl'.ret = "newWatcher" ]_vars

\* a RENAME or REMOVE event was handled while the file existed again: the
\* function has returned and the maps are as they were
C18_Witness ==
    /\ wpc = "backoff"
    /\ wl.ev \in RenameRemove
    /\ ~wl.gone
    /\ file # Absent
    /\ Snapshot = SnapshotOf(ParseMap(FileA))

\* the number of entries of a file that lack their ARN
LackingArn(c) ==
    Cardinality({ i \in 1..Len(c.mapUsers) : c.mapUsers[i].UserARN = NoArn })
    + Cardinality({ i \in 1..Len(c.mapRoles) : c.mapRoles[i].RoleARN = NoArn })

\* a load has returned the error of dropped entries
LoadDroppedEntries ==
    /\ wl # None
    /\ wl.err # None
    /\ wl.err.kind = "ErrParsingMap"
    /\ wpc = wl.ret

\* C19 as stated: after the load of a file with entries that lack their ARN
\* the maps hold the remaining entries.
C19_SurvivorsInstalled ==
    LoadDroppedEntries => Snapshot = SnapshotOf(ParseMap(wl.content))

\* C19 as amended: ParseMap drops the entries that lack their ARN, counts
\* them in its error and returns the others; loadDynamicFile then returns the
\* error without calling saveMap, so the maps stay as they were.
C19_PartialFileNotInstalled ==
    [][ (wpc = "parse" /\ wpc' # "parse" /\ file.kind = "json" /\ LackingArn(file) > 0) =>
          /\ UNCHANGED << users, roles, aliAccounts, mutex >>
          /\ wpc' = wl.ret
          /\ wl'.err = [ kind |-> "ErrParsingMap", errors |-> LackingArn(file) ]
          /\ Len(ParseMap(file).userMappings) + Len(ParseMap(file).roleMappings)
               + LackingArn(file) = Len(file.mapUsers) + Len(file.mapRoles)
          /\ \A i \in 1..Len(ParseMap(file).userMappings) :
               ParseMap(file).userMappings[i].UserARN # NoArn ]_vars

\* FileA was loaded, then FilePartial was written and its load returned the
\* error: the maps are still those of FileA
C19_Witness ==
    /\ LoadDroppedEntries
    /\ wpc = "select"
    /\ wl.content = FilePartial
    /\ Snapshot = SnapshotOf(ParseMap(FileA))

\* C20: when ParseMap cannot read the file or the file is not valid JSON,
\* loadDynamicFile leaves users, roles and accounts as they were and returns
\* to its caller, which goes on to create the watcher or to the next select.
C20_FailedReloadKeepsSnapshot ==
    [][ (wpc = "parse" /\ wpc' # "parse"
         /\ file.kind \in { "absent", "unreadable", "garbage" }) =>
          /\ UNCHANGED << users, roles, aliAccounts, mutex >>
          /\ wl'.err # None
          /\ wpc' = wl.ret
          /\ wl.ret \in { "newWatcher", "select" } ]_vars

\* FileA was loaded, then a file that is not JSON was written and its load
\* failed: the maps are still those of FileA and the loop is at its select
C20_Witness ==
    /\ wpc = "select"
    /\ wl.ev \in { "WRITE", "CREATE" }
    /\ wl.content = FileGarbage
    /\ wl.err = [ kind |-> "unmarshal" ]
    /\ Snapshot = SnapshotOf(ParseMap(FileA))

\* a loadDynamicFile has read a file, saved its mappings and returned
LoadCompleted ==
    /\ wpc \in { "newWatcher", "select" }
    /\ wl.content # None
    /\ wl.err = None

ErrorReceived ==
    /\ wpc = "select"
    /\ watcher'.Errors < watcher.Errors

\* C23: when the select receives an error of the watcher, the function
\* returns: the deferred Close closes the watcher, and wait.Until starts a
\* new load-then-watch cycle after its period.
C23_ErrorRestartsWatcher == [][ErrorReceived => wpc' = "close"]_vars

(***************************************************************************)
(* The goroutine of startLoadDynamicFile under fair scheduling.            *)
(***************************************************************************)
\* a step of the goroutine that wait.Until runs
Goroutine ==
    \/ UntilEnter
    \/ WaitUntilFileAvailable
    \/ LoadDynamicFile
    \/ SaveMapLock
    \/ SaveMapMake
    \/ SaveMapUsers
    \/ SaveMapRoles
    \/ SaveMapAccounts
    \/ NewWatcher
    \/ SelectStop
    \/ HandleWriteCreate
    \/ HandleRenameRemove
    \/ HandleWatcherError
    \/ CloseWatcher
    \/ UntilBackoff

\* what happens around the goroutine
Environment ==
    \/ WriteFile
    \/ RemoveFile
    \/ CreateFile
    \/ WatcherFails
    \/ Stop

DynFairNext ==
    \/ Goroutine
    \/ Environment

\* the goroutine is scheduled as long as it can take a step, and a select
\* that is reached again and again with stopCh closed, or with an event to
\* receive, takes that case at some point (the runtime picks among the ready
\* cases at random); nothing is assumed of the file system
DynFairSpec ==
    /\ DynInit
    /\ [][DynFairNext]_vars
    /\ WF_vars(Goroutine)
    /\ SF_vars(SelectStop)
    /\ SF_vars(HandleWriteCreate)
    /\ SF_vars(HandleRenameRemove)

\* the goroutine is over: wait.Until has returned, or the nil watcher was
\* dereferenced
Terminated == wpc \in { "exited", "panic" }

\* C22: once stopCh is closed the goroutine terminates, wherever it is.
C22_StopTerminates == stopCh ~> Terminated

\* the contents ParseMap reads without an error
WellFormed == { c \in Contents : ParseMap(c).err = None }

\* C33: no modification of the file is lost: when the file stays at a
\* well-formed content from some moment on, and the mapper is neither
\* stopped nor ended by a failed NewWatcher, the snapshot equals the content
\* of the file again and again.
C33_NoModificationLost ==
    \A f \in WellFormed :
        (<>[](file = f) /\ []~stopCh /\ [](wpc # "panic"))
            => []<>(Snapshot = SnapshotOf(ParseMap(f)))

(***************************************************************************)
(* The CRD mapper: the controller of RAMIdentityMappings, its work queue,  *)
(* its workers and its cache of wildcard mappings.                         *)
(***************************************************************************)
\* an ARN arn.Canonicalize refuses
GroupArn ==
    [ kind |-> "arn", partition |-> "acs", service |-> "ram", account |-> Account,
      resource |-> << "group", "ops" >> ]

\* the spec.arn a mapping of a given name is created with
ArnMenu(n) ==
    IF n = "x" THEN { RoleArn("D*"), GroupArn }
    ELSE { RoleArn("?a"), RoleArn("da") }

\* a RAMIdentityMapping as it is created: no status yet; the API server
\* gives every object it creates a UID of its own
RAMIdentityMapping(n, a, uid) ==
    [ kind |-> "RAMIdentityMapping", Name |-> n, UID |-> uid, ARN |-> a, Username |-> n,
      CanonicalARN |-> NoArn ]

\* the characters of the resource names the model uses
Chars(s) ==
    CASE s = "d*" -> << "d", "*" >>
      [] s = "?a" -> << "?", "a" >>
      [] s = "da" -> << "d", "a" >>
      [] s = "D*" -> << "D", "*" >>
      [] s = "db" -> << "d", "b" >>
      [] s = "Da" -> << "D", "a" >>
      [] s = "role" -> << "r", "o", "l", "e" >>
      [] OTHER -> << s >>

\* hasWildDedinedInMappingArn: strings.ContainsAny(arn, "?*")
hasWildDedinedInMappingArn(a) ==
    /\ a.kind = "arn"
    /\ \E i \in DOMAIN a.resource :
         \E j \in DOMAIN Chars(a.resource[i]) : Chars(a.resource[i])[j] \in { "?", "*" }

\* IndexRAMIdentityMappingByCanonicalArn: the index values of an object
IndexRAMIdentityMappingByCanonicalArn(obj) ==
    IF obj.kind # "RAMIdentityMapping" \/ obj.CanonicalARN = NoArn THEN {}
    ELSE { obj.CanonicalARN }

\* ramMappingsIndex.ByIndex("canonicalARN", key)
ByIndex(store, key) ==
    { store[n] : n \in { m \in Names : key \in IndexRAMIdentityMappingByCanonicalArn(store[m]) } }

\* the first unused place for a map
NewId(m) ==
    CHOOSE i \in MapIds : ~m[i].used /\ \A j \in MapIds : j < i => m[j].used

\* the maps some goroutine or the cache still refers to
LiveIds(c, w, h) ==
    ({ c, h.wildCacheMap, h.wildCacheMapp2 }
       \cup { w[x].wildCacheMap : x \in Workers }
       \cup { w[x].storageMap2 : x \in Workers }) \ { NoMap }

\* the garbage collector: maps nothing refers to are gone
Collect(m, live) == [ i \in MapIds |-> IF i \in live THEN m[i] ELSE FreeCell ]

\* WildMappingMap.clone
clone(in) == [ n \in DOMAIN in |-> in[n] ]

\* map assignment m[k] = val
PutWild(m, k, val) == [ n \in DOMAIN m \cup { k } |-> IF n = k THEN val ELSE m[n] ]

\* workqueue.Add: dropped on a queue that is shutting down and for an item
\* that is already marked dirty; an item in processing is marked dirty only
QueueAdd_WhileProcessing(wq, k) ==
    IF wq.shuttingDown \/ k \in wq.dirty THEN wq
    ELSE [ wq EXCEPT !.dirty = @ \cup { k }, !.queue = Append(@, k) ]

QueueAdd(wq, k) ==
    IF wq.shuttingDown \/ k \in wq.dirty THEN wq
    ELSE IF k \in wq.processing THEN [ wq EXCEPT !.dirty = @ \cup { k } ]
    ELSE [ wq EXCEPT !.dirty = @ \cup { k }, !.queue = Append(@, k) ]

\* workqueue.Get on a queue that has an item
QueueGet(wq) ==
    [ wq EXCEPT !.queue = Tail(@),
                !.processing = @ \cup { Head(wq.queue) },
                !.dirty = @ \ { Head(wq.queue) } ]

\* workqueue.Done: an item marked dirty meanwhile goes back to the queue
QueueDone(wq, k) ==
    IF k \in wq.dirty
    THEN [ wq EXCEPT !.processing = @ \ { k }, !.queue = Append(@, k) ]
    ELSE [ wq EXCEPT !.processing = @ \ { k } ]

\* the failure of syncHandler is not reported to the rate limiter
AddRateLimited_Dropped(wq, k) == wq

\* workqueue.AddRateLimited: the rate limiter counts the failure and the item
\* is added after the delay it gives; nothing is scheduled on a queue that is
\* shutting down
AddRateLimited(wq, k) ==
    IF wq.shuttingDown THEN [ wq EXCEPT !.failures = @ \cup { k } ]
    ELSE [ wq EXCEPT !.failures = @ \cup { k }, !.waiting = @ \cup { k } ]

\* workqueue.Forget
Forget(wq, k) == [ wq EXCEPT !.failures = @ \ { k } ]

(***************************************************************************)
(* The API server and the informer.                                        *)
(***************************************************************************)
\* a RAMIdentityMapping is created
ApiCreate ==
    /\ apiEvents < MaxApiEvents
    /\ \E n \in Names :
         /\ api[n] = Absent
         /\ \E a \in ArnMenu(n) :
              api' = [ api EXCEPT ![n] = RAMIdentityMapping(n, a, uids[n] + 1) ]
         /\ uids' = [ uids EXCEPT ![n] = @ + 1 ]
    /\ apiEvents' = apiEvents + 1
    /\ UNCHANGED << informer, synced, notes, workqueue, WildMappingCache,
                    WildMappingCacheLock, maps, wk, hpc, hl, runpc, ctrlStopCh, mapped >>
    /\ UNCHANGED << verifyVars, gen, dynVars >>

\* a RAMIdentityMapping is deleted
ApiDelete ==
    /\ apiEvents < MaxApiEvents
    /\ \E n \in Names :
         /\ api[n] # Absent
         /\ api' = [ api EXCEPT ![n] = Absent ]
    /\ apiEvents' = apiEvents + 1
    /\ UNCHANGED << uids, informer, synced, notes, workqueue, WildMappingCache,
                    WildMappingCacheLock, maps, wk, hpc, hl, runpc, ctrlStopCh, mapped >>
    /\ UNCHANGED << verifyVars, gen, dynVars >>

\* the notifications of the initial list: an add for every mapping
RECURSIVE InitialAdds(_, _)
InitialAdds(names, store) ==
    IF names = << >> THEN << >>
    ELSE IF store[Head(names)] = Absent THEN InitialAdds(Tail(names), store)
    ELSE << [ op |-> "add", name |-> Head(names) ] >> \o InitialAdds(Tail(names), store)

\* the informer has listed the mappings: its store is filled and HasSynced
\* turns true
InformerSync ==
    /\ ~synced
    /\ hpc # "panic"
    /\ synced' = TRUE
    /\ informer' = api
    /\ notes' = InitialAdds(<< "x", "y" >>, api)
    /\ UNCHANGED << api, apiEvents, uids, workqueue, WildMappingCache,
                    WildMappingCacheLock, maps, wk, hpc, hl, runpc, ctrlStopCh, mapped >>
    /\ UNCHANGED << verifyVars, gen, dynVars >>

\* the watch brings the informer's copy of one mapping up to date; the store
\* is updated first, the handlers are notified afterwards
InformerDeliver ==
    /\ synced
    /\ hpc # "panic"
    /\ \E n \in Names :
         /\ informer[n] # api[n]
         /\ informer' = [ informer EXCEPT ![n] = api[n] ]
         /\ notes' = Append(notes,
                        [ op |-> IF informer[n] = Absent THEN "add"
                                 ELSE IF api[n] = Absent THEN "delete" ELSE "update",
                          name |-> n ])
    /\ UNCHANGED << api, apiEvents, uids, synced, workqueue, WildMappingCache,
                    WildMappingCacheLock, maps, wk, hpc, hl, runpc, ctrlStopCh, mapped >>
    /\ UNCHANGED << verifyVars, gen, dynVars >>

(***************************************************************************)
(* The event handlers controller.New registers.                            *)
(***************************************************************************)
\* AddFunc and UpdateFunc: enqueueRAMIdentityMapping
enqueueRAMIdentityMapping ==
    /\ hpc = "idle"
    /\ notes # << >>
    /\ Head(notes).op \in { "add", "update" }
    /\ notes' = Tail(notes)
    /\ workqueue' = QueueAdd(workqueue, Head(notes).name)
    /\ UNCHANGED << api, apiEvents, uids, informer, synced, WildMappingCache,
                    WildMappingCacheLock, maps, wk, hpc, hl, runpc, ctrlStopCh, mapped >>
    /\ UNCHANGED << verifyVars, gen, dynVars >>

\* DeleteFunc: removeWildMapping starts with the list of all mappings
RemoveList ==
    /\ hpc = "idle"
    /\ notes # << >>
    /\ Head(notes).op = "delete"
    /\ notes' = Tail(notes)
    /\ hl' = [ HandlerLocals EXCEPT !.deleted = Head(notes).name,
                                     !.allMapping = informer ]
    /\ hpc' = "lock"
    /\ UNCHANGED << api, apiEvents, uids, informer, synced, workqueue, WildMappingCache,
                    WildMappingCacheLock, maps, wk, runpc, ctrlStopCh, mapped >>
    /\ UNCHANGED << verifyVars, gen, dynVars >>

\* the lock is taken whoever holds it
CanLockWild_Always == TRUE

\* WildMappingCacheLock.Lock() returns
CanLockWild == WildMappingCacheLock = Unlocked

RemoveLock ==
    /\ hpc = "lock"
    /\ CanLockWild
    /\ WildMappingCacheLock' = Handler
    /\ hpc' = "build"
    /\ UNCHANGED << api, apiEvents, uids, informer, synced, notes, workqueue, WildMappingCache,
                    maps, wk, hl, runpc, ctrlStopCh, mapped >>
    /\ UNCHANGED << verifyVars, gen, dynVars >>

\* every mapping of the old map that is still listed is kept
KeptNames_Listed(old, allMapping) ==
    { n \in DOMAIN old : allMapping[n] # Absent }

\* the mappings removeWildMapping keeps: those of the old map whose listed
\* object has a wildcard in its status
KeptNames(old, allMapping) ==
    { n \in DOMAIN old : /\ allMapping[n] # Absent
                         /\ hasWildDedinedInMappingArn(allMapping[n].CanonicalARN) }

\* removeWildMapping: Load, and the new map is built; the type assertion on
\* the value of a cache nothing was stored in panics, which ends the process
RemoveBuild ==
    /\ hpc = "build"
    /\ IF WildMappingCache = NoMap
       THEN /\ hpc' = "panic"
            /\ runpc' = "panic"
            /\ wk' = [ w \in Workers |-> WorkerLocals("panic") ]
            /\ WildMappingCacheLock' = Unlocked
            /\ UNCHANGED << maps, hl >>
       ELSE /\ LET old == maps[WildMappingCache].m
                   id == NewId(maps) IN
              /\ maps' = [ maps EXCEPT ![id] =
                             [ used |-> TRUE,
                               m |-> [ n \in KeptNames(old, hl.allMapping) |-> old[n] ] ] ]
              /\ hl' = [ hl EXCEPT !.wildCacheMap = WildMappingCache,
                                   !.wildCacheMapp2 = id ]
            /\ hpc' = "store"
            /\ UNCHANGED << runpc, wk, WildMappingCacheLock >>
    /\ UNCHANGED << api, apiEvents, uids, informer, synced, notes, workqueue, WildMappingCache,
                    ctrlStopCh, mapped >>
    /\ UNCHANGED << verifyVars, gen, dynVars >>

\* removeWildMapping: WildMappingCache.Store(wildCacheMapp2)
RemoveStore ==
    /\ hpc = "store"
    /\ WildMappingCache' = hl.wildCacheMapp2
    /\ hpc' = "unlock"
    /\ UNCHANGED << api, apiEvents, uids, informer, synced, notes, workqueue,
                    WildMappingCacheLock, maps, wk, hl, runpc, ctrlStopCh, mapped >>
    /\ UNCHANGED << verifyVars, gen, dynVars >>

\* removeWildMapping returns: the deferred Unlock
RemoveUnlock ==
    /\ hpc = "unlock"
    /\ WildMappingCacheLock' = Unlocked
    /\ hl' = HandlerLocals
    /\ hpc' = "idle"
    /\ maps' = Collect(maps, LiveIds(WildMappingCache, wk, HandlerLocals))
    /\ UNCHANGED << api, apiEvents, uids, informer, synced, notes, workqueue, WildMappingCache,
                    wk, runpc, ctrlStopCh, mapped >>
    /\ UNCHANGED << verifyVars, gen, dynVars >>

(***************************************************************************)
(* Controller.Run.                                                         *)
(***************************************************************************)
\* cache.WaitForCacheSync: true once the informer has synced, false when
\* stopCh is closed first; Run then returns an error
RunWaitForCacheSync ==
    /\ runpc = "waitForCacheSync"
    /\ \/ synced /\ runpc' = "store"
       \/ ctrlStopCh /\ runpc' = "shutDown"
    /\ UNCHANGED << api, apiEvents, uids, informer, synced, notes, workqueue, WildMappingCache,
                    WildMappingCacheLock, maps, wk, hpc, hl, ctrlStopCh, mapped >>
    /\ UNCHANGED << verifyVars, gen, dynVars >>

\* c.WildMappingCache.Store(WildMappingMap{})
RunStore ==
    /\ runpc = "store"
    /\ LET id == NewId(maps) IN
         /\ maps' = Collect([ maps EXCEPT ![id] = [ used |-> TRUE, m |-> EmptyWild ] ],
                            LiveIds(id, wk, hl))
         /\ WildMappingCache' = id
    /\ runpc' = "startWorkers"
    /\ UNCHANGED << api, apiEvents, uids, informer, synced, notes, workqueue,
                    WildMappingCacheLock, wk, hpc, hl, ctrlStopCh, mapped >>
    /\ UNCHANGED << verifyVars, gen, dynVars >>

\* go wait.Until(c.runWorker, time.Second, stopCh), threadiness times
RunStartWorkers ==
    /\ runpc = "startWorkers"
    /\ wk' = [ w \in Workers |-> WorkerLocals("until") ]
    /\ runpc' = "waitStop"
    /\ UNCHANGED << api, apiEvents, uids, informer, synced, notes, workqueue, WildMappingCache,
                    WildMappingCacheLock, maps, hpc, hl, ctrlStopCh, mapped >>
    /\ UNCHANGED << verifyVars, gen, dynVars >>

\* <-stopCh
RunStop ==
    /\ runpc = "waitStop"
    /\ ctrlStopCh
    /\ runpc' = "shutDown"
    /\ UNCHANGED << api, apiEvents, uids, informer, synced, notes, workqueue, WildMappingCache,
                    WildMappingCacheLock, maps, wk, hpc, hl, ctrlStopCh, mapped >>
    /\ UNCHANGED << verifyVars, gen, dynVars >>

\* Run returns and leaves the queue as it is
RunShutDown_Skipped ==
    /\ runpc = "shutDown"
    /\ runpc' = "returned"
    /\ UNCHANGED << api, apiEvents, uids, informer, synced, notes, workqueue, WildMappingCache,
                    WildMappingCacheLock, maps, wk, hpc, hl, ctrlStopCh, mapped >>
    /\ UNCHANGED << verifyVars, gen, dynVars >>

\* Run returns: the deferred c.workqueue.ShutDown()
RunShutDown ==
    /\ runpc = "shutDown"
    /\ workqueue' = [ workqueue EXCEPT !.shuttingDown = TRUE ]
    /\ runpc' = "returned"
    /\ UNCHANGED << api, apiEvents, uids, informer, synced, notes, WildMappingCache,
                    WildMappingCacheLock, maps, wk, hpc, hl, ctrlStopCh, mapped >>
    /\ UNCHANGED << verifyVars, gen, dynVars >>

\* close(stopCh)
CtrlStop ==
    /\ ~ctrlStopCh
    /\ hpc # "panic"
    /\ ctrlStopCh' = TRUE
    /\ UNCHANGED << api, apiEvents, uids, informer, synced, notes, workqueue, WildMappingCache,
                    WildMappingCacheLock, maps, wk, hpc, hl, runpc, mapped >>
    /\ UNCHANGED << verifyVars, gen, dynVars >>

\* the delay the rate limiter gave for an item has passed: workqueue.Add
DelayElapsed(k) ==
    /\ k \in workqueue.waiting
    /\ workqueue' = QueueAdd([ workqueue EXCEPT !.waiting = @ \ { k } ], k)
    /\ UNCHANGED << api, apiEvents, uids, informer, synced, notes, WildMappingCache,
                    WildMappingCacheLock, maps, wk, hpc, hl, runpc, ctrlStopCh, mapped >>
    /\ UNCHANGED << verifyVars, gen, dynVars >>

(***************************************************************************)
(* The workers: wait.Until(c.runWorker), processNextWorkItem, syncHandler. *)
(***************************************************************************)
\* wait.Until: unless stopCh is closed, runWorker is called
WorkerUntil(w) ==
    /\ wk[w].pc = "until"
    /\ wk' = [ wk EXCEPT ![w].pc = IF ctrlStopCh THEN "exited" ELSE "get" ]
    /\ UNCHANGED << api, apiEvents, uids, informer, synced, notes, workqueue, WildMappingCache,
                    WildMappingCacheLock, maps, hpc, hl, runpc, ctrlStopCh, mapped >>
    /\ UNCHANGED << verifyVars, gen, dynVars >>

\* processNextWorkItem: workqueue.Get() waits for an item or for the shutdown;
\* on shutdown it returns false and runWorker returns
WorkerGet(w) ==
    /\ wk[w].pc = "get"
    /\ \/ /\ workqueue.queue # << >>
          /\ workqueue' = QueueGet(workqueue)
          /\ wk' = [ wk EXCEPT ![w].pc = "syncHandler", ![w].key = Head(workqueue.queue) ]
       \/ /\ workqueue.queue = << >>
          /\ workqueue.shuttingDown
          /\ wk' = [ wk EXCEPT ![w].pc = "until" ]
          /\ UNCHANGED workqueue
    /\ UNCHANGED << api, apiEvents, uids, informer, synced, notes, WildMappingCache,
                    WildMappingCacheLock, maps, hpc, hl, runpc, ctrlStopCh, mapped >>
    /\ UNCHANGED << verifyVars, gen, dynVars >>

\* syncHandler up to the status update: the mapping is fetched from the
\* lister; one that is gone, or has no ARN, is done with; the ARN is
\* lower-cased and canonicalized
SyncHandler(w) ==
    /\ wk[w].pc = "syncHandler"
    /\ LET obj == informer[wk[w].key]
           c == Canonicalize(LowerArn(obj.ARN)) IN
       IF obj = Absent
       THEN wk' = [ wk EXCEPT ![w].pc = "result", ![w].err = None ]
       ELSE IF obj.ARN = NoArn
       THEN wk' = [ wk EXCEPT ![w].pc = "result", ![w].obj = obj, ![w].err = None ]
       ELSE IF ~c.ok
       THEN wk' = [ wk EXCEPT ![w].pc = "result", ![w].obj = obj,
                              ![w].err = [ kind |-> "error", of |-> "Canonicalize" ] ]
       ELSE wk' = [ wk EXCEPT ![w].pc = "UpdateStatus", ![w].obj = obj,
                              ![w].copy = [ obj EXCEPT !.CanonicalARN = c.arn ] ]
    /\ UNCHANGED << api, apiEvents, uids, informer, synced, notes, workqueue, WildMappingCache,
                    WildMappingCacheLock, maps, hpc, hl, runpc, ctrlStopCh, mapped >>
    /\ UNCHANGED << verifyVars, gen, dynVars >>

\* the wildcard cache is updated whatever the canonical ARN is
NeedsWildRefresh_Always(a) == TRUE

\* syncHandler: "check if need refresh wild mapping cache store"
NeedsWildRefresh(a) == hasWildDedinedInMappingArn(a)

\* a failed status update does not end syncHandler
UpdateFailed_Ignored(w) ==
    /\ wk' = [ wk EXCEPT ![w].pc = "lock" ]
    /\ UNCHANGED api

\* syncHandler: UpdateStatus has failed, the error is returned
UpdateFailed(w) ==
    /\ wk' = [ wk EXCEPT ![w].pc = "result",
                         ![w].err = [ kind |-> "error", of |-> "UpdateStatus" ] ]
    /\ UNCHANGED api

\* syncHandler: UpdateStatus. The API server takes the status of the copy
\* when the copy is of the object it holds, and answers with an error
\* otherwise; the call can fail on its way too
UpdateStatus(w) ==
    /\ wk[w].pc = "UpdateStatus"
    /\ \/ UpdateFailed(w)
       \/ /\ api[wk[w].key] = wk[w].obj
          /\ api' = [ api EXCEPT ![wk[w].key] = wk[w].copy ]
          /\ wk' = [ wk EXCEPT ![w].pc = IF NeedsWildRefresh(wk[w].copy.CanonicalARN)
                                         THEN "lock" ELSE "result",
                               ![w].err = None,
                               ![w].updated = TRUE ]
    /\ UNCHANGED << apiEvents, uids, informer, synced, notes, workqueue, WildMappingCache,
                    WildMappingCacheLock, maps, hpc, hl, runpc, ctrlStopCh, mapped >>
    /\ UNCHANGED << verifyVars, gen, dynVars >>

\* syncHandler: c.WildMappingCacheLock.Lock()
WildLock(w) ==
    /\ wk[w].pc = "lock"
    /\ CanLockWild
    /\ WildMappingCacheLock' = w
    /\ wk' = [ wk EXCEPT ![w].pc = "clone" ]
    /\ UNCHANGED << api, apiEvents, uids, informer, synced, notes, workqueue, WildMappingCache,
                    maps, hpc, hl, runpc, ctrlStopCh, mapped >>
    /\ UNCHANGED << verifyVars, gen, dynVars >>

\* the loaded map itself is written to
WildClone_InPlace(w) ==
    /\ wk[w].pc = "clone"
    /\ wk' = [ wk EXCEPT ![w].pc = "put",
                         ![w].wildCacheMap = WildMappingCache,
                         ![w].storageMap2 = WildMappingCache ]
    /\ UNCHANGED << api, apiEvents, uids, informer, synced, notes, workqueue, WildMappingCache,
                    WildMappingCacheLock, maps, hpc, hl, runpc, ctrlStopCh, mapped >>
    /\ UNCHANGED << verifyVars, gen, dynVars >>

\* syncHandler: wildCacheMap := Load(), storageMap2 := wildCacheMap.clone()
WildClone(w) ==
    /\ wk[w].pc = "clone"
    /\ LET id == NewId(maps) IN
         /\ maps' = [ maps EXCEPT ![id] =
                        [ used |-> TRUE, m |-> clone(maps[WildMappingCache].m) ] ]
         /\ wk' = [ wk EXCEPT ![w].pc = "put",
                              ![w].wildCacheMap = WildMappingCache,
                              ![w].storageMap2 = id ]
    /\ UNCHANGED << api, apiEvents, uids, informer, synced, notes, workqueue, WildMappingCache,
                    WildMappingCacheLock, hpc, hl, runpc, ctrlStopCh, mapped >>
    /\ UNCHANGED << verifyVars, gen, dynVars >>

\* syncHandler: storageMap2[ramIdentityMappingCopy.Name] = ramIdentityMappingCopy
WildPut(w) ==
    /\ wk[w].pc = "put"
    /\ maps' = [ maps EXCEPT ![wk[w].storageMap2].m = PutWild(@, wk[w].copy.Name, wk[w].copy) ]
    /\ wk' = [ wk EXCEPT ![w].pc = "store" ]
    /\ UNCHANGED << api, apiEvents, uids, informer, synced, notes, workqueue, WildMappingCache,
                    WildMappingCacheLock, hpc, hl, runpc, ctrlStopCh, mapped >>
    /\ UNCHANGED << verifyVars, gen, dynVars >>

\* syncHandler: c.WildMappingCache.Store(storageMap2)
WildStore(w) ==
    /\ wk[w].pc = "store"
    /\ WildMappingCache' = wk[w].storageMap2
    /\ wk' = [ wk EXCEPT ![w].pc = "result", ![w].err = None ]
    /\ UNCHANGED << api, apiEvents, uids, informer, synced, notes, workqueue,
                    WildMappingCacheLock, maps, hpc, hl, runpc, ctrlStopCh, mapped >>
    /\ UNCHANGED << verifyVars, gen, dynVars >>

\* what a worker keeps of syncHandler when it has returned
AfterSync(l) ==
    [ l EXCEPT !.pc = "done", !.obj = None, !.copy = None, !.updated = FALSE,
               !.wildCacheMap = NoMap, !.storageMap2 = NoMap ]

\* syncHandler returns (with its deferred Unlock when it holds the lock); on
\* an error the key is added again through the rate limiter, otherwise the
\* rate limiter forgets it
SyncResult(w) ==
    /\ wk[w].pc = "result"
    /\ workqueue' = IF wk[w].err # None THEN AddRateLimited(workqueue, wk[w].key)
                    ELSE Forget(workqueue, wk[w].key)
    /\ WildMappingCacheLock' = IF WildMappingCacheLock = w THEN Unlocked
                               ELSE WildMappingCacheLock
    /\ wk' = [ wk EXCEPT ![w] = AfterSync(@) ]
    /\ maps' = Collect(maps, LiveIds(WildMappingCache, wk', hl))
    /\ UNCHANGED << api, apiEvents, uids, informer, synced, notes, WildMappingCache,
                    hpc, hl, runpc, ctrlStopCh, mapped >>
    /\ UNCHANGED << verifyVars, gen, dynVars >>

\* the deferred workqueue.Done(obj); processNextWorkItem returns true
WorkerDone(w) ==
    /\ wk[w].pc = "done"
    /\ workqueue' = QueueDone(workqueue, wk[w].key)
    /\ wk' = [ wk EXCEPT ![w] = WorkerLocals("get") ]
    /\ UNCHANGED << api, apiEvents, uids, informer, synced, notes, WildMappingCache,
                    WildMappingCacheLock, maps, hpc, hl, runpc, ctrlStopCh, mapped >>
    /\ UNCHANGED << verifyVars, gen, dynVars >>

\* a step of one worker
Worker(w) ==
    \/ WorkerUntil(w)
    \/ WorkerGet(w)
    \/ SyncHandler(w)
    \/ UpdateStatus(w)
    \/ WildLock(w)
    \/ WildClone(w)
    \/ WildPut(w)
    \/ WildStore(w)
    \/ SyncResult(w)
    \/ WorkerDone(w)

CtrlNext ==
    \/ ApiCreate
    \/ ApiDelete
    \/ InformerSync
    \/ InformerDeliver
    \/ enqueueRAMIdentityMapping
    \/ RemoveList
    \/ RemoveLock
    \/ RemoveBuild
    \/ RemoveStore
    \/ RemoveUnlock
    \/ RunWaitForCacheSync
    \/ RunStore
    \/ RunStartWorkers
    \/ RunStop
    \/ RunShutDown
    \/ CtrlStop
    \/ \E k \in Names : DelayElapsed(k)
    \/ \E w \in Workers : WorkerUntil(w)
    \/ \E w \in Workers : WorkerGet(w)
    \/ \E w \in Workers : SyncHandler(w)
    \/ \E w \in Workers : UpdateStatus(w)
    \/ \E w \in Workers : WildLock(w)
    \/ \E w \in Workers : WildClone(w)
    \/ \E w \in Workers : WildPut(w)
    \/ \E w \in Workers : WildStore(w)
    \/ \E w \in Workers : SyncResult(w)
    \/ \E w \in Workers : WorkerDone(w)

CtrlInit ==
    /\ v = [ clusterID |-> "c999", stsEndpoint |-> HostVpc ]
    /\ VerifyIdle
    /\ GenIdle
    /\ DynIdle
    /\ CtrlIdle

CtrlSpec == CtrlInit /\ [][CtrlNext]_vars

(***************************************************************************)
(* Properties of the controller.                                           *)
(***************************************************************************)
\* a worker is inside syncHandler
InSyncHandler(w) ==
    wk[w].pc \in { "syncHandler", "UpdateStatus", "lock", "clone", "put", "store", "result" }

\* C25: no two workers are inside syncHandler for the same key at the same
\* time, with any interleaving of Add, Get and Done on the queue.
C25_OneWorkerPerKey ==
    \A w1 \in Workers : \A w2 \in Workers \ { w1 } :
       (InSyncHandler(w1) /\ InSyncHandler(w2)) => wk[w1].key # wk[w2].key

\* a key was added again while a worker is in syncHandler for it, and the
\* other worker waits in Get for an item
C25_Witness ==
    \E w1 \in Workers : \E w2 \in Workers \ { w1 } :
       /\ InSyncHandler(w1)
       /\ wk[w1].key \in workqueue.dirty
       /\ wk[w2].pc = "get"
       /\ ~workqueue.shuttingDown

\* a step of Controller.Run
RunStep ==
    \/ RunWaitForCacheSync
    \/ RunStore
    \/ RunStartWorkers
    \/ RunStop
    \/ RunShutDown

\* a step of the goroutine that calls the event handlers
HandlerStep ==
    \/ enqueueRAMIdentityMapping
    \/ RemoveList
    \/ RemoveLock
    \/ RemoveBuild
    \/ RemoveStore
    \/ RemoveUnlock

\* the controller starts on an API server that holds one mapping already;
\* one more mapping is created or deleted while it runs
CtrlFairInit ==
    /\ v = [ clusterID |-> "c999", stsEndpoint |-> HostVpc ]
    /\ VerifyIdle
    /\ GenIdle
    /\ DynIdle
    /\ api = [ n \in Names |-> IF n = "y" THEN RAMIdentityMapping("y", RoleArn("?a"), 1)
                                ELSE Absent ]
    /\ apiEvents = MaxApiEvents - 1
    /\ uids = [ n \in Names |-> IF n = "y" THEN 1 ELSE 0 ]
    /\ informer = [ n \in Names |-> Absent ]
    /\ synced = FALSE
    /\ notes = << >>
    /\ workqueue = NewQueue
    /\ WildMappingCache = NoMap
    /\ WildMappingCacheLock = Unlocked
    /\ maps = [ i \in MapIds |-> FreeCell ]
    /\ wk = [ w \in Workers |-> WorkerLocals("notStarted") ]
    /\ hpc = "idle"
    /\ hl = HandlerLocals
    /\ runpc = "waitForCacheSync"
    /\ ctrlStopCh = FALSE
    /\ mapped = None

\* the goroutines of the controller are scheduled as long as they can take a
\* step, the timers of the delayed adds fire and the watch delivers; nothing
\* is assumed of the API server's clients and of stopCh
CtrlFairSpec ==
    /\ CtrlFairInit
    /\ [][CtrlNext]_vars
    /\ WF_vars(RunStep)
    /\ WF_vars(HandlerStep)
    /\ \A w \in Workers : WF_vars(Worker(w))
    /\ \A k \in Names : WF_vars(DelayElapsed(k))
    /\ WF_vars(InformerDeliver)

\* a worker holds an item it has not marked done
HoldsItem(w) == wk[w].key # NoKey

\* no worker runs: each has left wait.Until, was never started, or the
\* process has ended
WorkersGone == \A w \in Workers : wk[w].pc \in { "exited", "notStarted", "panic" }

\* C26: once stopCh is closed the queue is shut down and every worker
\* exits, its item marked done. Get answers shutdown on a queue that is shut
\* down and empty only, and a worker that got that answer takes no item again.
C26_ShutdownDrains ==
    /\ ctrlStopCh ~> (WorkersGone /\ (workqueue.shuttingDown \/ hpc = "panic"))
    /\ [](\A w \in Workers : wk[w].pc = "exited" => ~HoldsItem(w))
    /\ [](workqueue.processing = { wk[w].key : w \in { x \in Workers : HoldsItem(x) } })
    /\ [][\A w \in Workers :
            (wk[w].pc = "get" /\ wk'[w].pc = "until") =>
               (workqueue.shuttingDown /\ workqueue.queue = << >> /\ ctrlStopCh)]_vars
    /\ [][\A w \in Workers :
            (wk[w].pc = "until" /\ workqueue.shuttingDown) =>
               wk'[w].pc \in { "until", "exited", "panic" }]_vars

\* the queue was shut down while a worker was in syncHandler and the other
\* waited in Get; both have exited and nothing is left in processing
C26_Witness ==
    /\ ctrlStopCh
    /\ workqueue.shuttingDown
    /\ \A w \in Workers : wk[w].pc = "exited"
    /\ workqueue.processing = {}
    /\ workqueue.failures # {}

\* syncHandler returns to a worker with an error for a key
SyncFailed(w, k) == wk[w].pc = "result" /\ wk[w].key = k /\ wk[w].err # None

\* syncHandler returns to a worker without error for a key
SyncSucceeded(w, k) == wk[w].pc = "result" /\ wk[w].key = k /\ wk[w].err = None

\* C27: when syncHandler returns an error the worker hands the key to the
\* rate limiter, which adds it again after its delay, and a worker processes
\* it again unless the queue is shut down first; when syncHandler returns no
\* error the rate limiter forgets the key and the worker adds nothing.
C27_ErrorRequeues ==
    /\ \A k \in Names :
         (\E w \in Workers : SyncFailed(w, k) /\ ~workqueue.shuttingDown)
           ~> \/ \E w \in Workers : wk[w].pc = "syncHandler" /\ wk[w].key = k
              \/ workqueue.shuttingDown
              \/ hpc = "panic"
    /\ [][\A w \in Workers : \A k \in Names :
            (SyncFailed(w, k) /\ wk'[w].pc = "done") =>
               /\ k \in workqueue'.failures
               /\ workqueue.shuttingDown \/ k \in workqueue'.waiting]_vars
    /\ [][\A w \in Workers : \A k \in Names :
            (SyncSucceeded(w, k) /\ wk'[w].pc = "done") =>
               /\ k \notin workqueue'.failures
               /\ workqueue'.waiting = workqueue.waiting
               /\ workqueue'.queue = workqueue.queue
               /\ workqueue'.dirty = workqueue.dirty]_vars

\* the mapping x has an ARN that cannot be canonicalized; its only event was
\* its creation, its sync has failed, and a worker is in syncHandler for it
\* again
C27_Witness ==
    /\ api["x"] # Absent
    /\ api["x"].ARN = GroupArn
    /\ "x" \in workqueue.failures
    /\ \E w \in Workers : wk[w].pc = "syncHandler" /\ wk[w].key = "x"

\* the map a Load of the wildcard cache gives, empty when nothing is stored
CacheValue == IF WildMappingCache = NoMap THEN EmptyWild ELSE maps[WildMappingCache].m

\* a worker stores the map it has built
WorkerStores(w) == wk[w].pc = "store" /\ wk'[w].pc = "result"

\* C28: a worker changes the wildcard cache only in a syncHandler whose
\* UpdateStatus has succeeded with the canonical ARN of the mapping's ARN, and
\* only when that canonical ARN has a '*' or a '?'; a syncHandler that ends
\* with an error has not touched the cache.
C28_InsertAfterStatusUpdate ==
    /\ [][\A w \in Workers :
            WorkerStores(w) =>
               /\ wk[w].updated
               /\ wk[w].copy.CanonicalARN = Canonicalize(LowerArn(wk[w].obj.ARN)).arn
               /\ hasWildDedinedInMappingArn(wk[w].copy.CanonicalARN)]_vars
    /\ [][CacheValue' # CacheValue =>
            \/ hpc = "store"
            \/ \E w \in Workers : WorkerStores(w)]_vars
    /\ [](\A w \in Workers :
            (wk[w].pc = "result" /\ wk[w].err # None) =>
               (wk[w].storageMap2 = NoMap /\ WildMappingCacheLock # w))
    /\ [](\A w \in Workers :
            (wk[w].pc = "result" /\ wk[w].updated
               /\ ~hasWildDedinedInMappingArn(wk[w].copy.CanonicalARN)) =>
               (wk[w].storageMap2 = NoMap /\ WildMappingCacheLock # w))

\* a worker has stored the map with its mapping after a successful status
\* update, while the other worker's syncHandler has ended with an error
C28_Witness ==
    \E w1 \in Workers : \E w2 \in Workers \ { w1 } :
       /\ wk[w1].pc = "result"
       /\ wk[w1].updated
       /\ WildMappingCache = wk[w1].storageMap2
       /\ wk[w1].key \in DOMAIN CacheValue
       /\ wk[w2].pc = "result"
       /\ wk[w2].err # None

\* C29: no insertion into the wildcard cache is lost, whether it runs
\* beside other insertions or beside the reconciliation of a deletion: a
\* cached mapping leaves the cache only when the API server no longer holds
\* that mapping.
C29_NoInsertionLost ==
    [][\A n \in DOMAIN CacheValue :
         n \notin DOMAIN CacheValue' => api[n] # CacheValue[n]]_vars

\* removeWildMapping stores the map it has built
HandlerStores == hpc = "store" /\ hpc' = "unlock"

\* C30: the map removeWildMapping stores has exactly the entries of the map
\* it loaded whose mapping the informer lists with a wildcard in its
\* canonical ARN, each as it was; it has no entry under the name of the
\* deleted mapping unless the informer lists a mapping of that name again.
C30_ReconcileKeepsListedWild ==
    [][HandlerStores =>
         /\ DOMAIN CacheValue' =
              { n \in DOMAIN CacheValue :
                  /\ hl.allMapping[n] # Absent
                  /\ hasWildDedinedInMappingArn(hl.allMapping[n].CanonicalARN) }
         /\ \A n \in DOMAIN CacheValue' : CacheValue'[n] = CacheValue[n]
         /\ hl.allMapping[hl.deleted] = Absent => hl.deleted \notin DOMAIN CacheValue']_vars

\* removeWildMapping has stored its map: the entry of the deleted mapping is
\* gone from the cache, the entry of the other mapping is kept
C30_Witness ==
    /\ hpc = "unlock"
    /\ WildMappingCache = hl.wildCacheMapp2
    /\ hl.deleted \in DOMAIN maps[hl.wildCacheMap].m
    /\ hl.deleted \notin DOMAIN CacheValue
    /\ DOMAIN CacheValue # {}

\* the controller is running and has nothing left to do: the informer has
\* synced and holds what the API server holds, every notification has been
\* handled, the queue and the rate limiter hold no key, and the workers wait
\* in Get
Quiescent ==
    /\ synced
    /\ informer = api
    /\ notes = << >>
    /\ hpc = "idle"
    /\ workqueue.queue = << >>
    /\ workqueue.dirty = {}
    /\ workqueue.processing = {}
    /\ workqueue.waiting = {}
    /\ ~workqueue.shuttingDown
    /\ \A w \in Workers : wk[w].pc = "get"

\* the mappings of the informer's store whose canonical ARN has a wildcard
WildInInformer ==
    { n \in Names : /\ informer[n] # Absent
                    /\ hasWildDedinedInMappingArn(informer[n].CanonicalARN) }

\* C34: whenever the controller is quiescent, the keys of the wildcard cache
\* are the mappings of the informer's store whose canonical ARN has a
\* wildcard: no deleted mapping is cached and no wildcard mapping is missing.
C34_QuiescentCacheMatchesInformer ==
    Quiescent => DOMAIN CacheValue = WildInInformer

\* C35: nothing loads the wildcard cache before Run has stored the initial
\* empty map: neither removeWildMapping nor a worker's syncHandler reaches
\* its Load while the atomic value is still empty.
C35_CacheInitialisedBeforeLoad ==
    /\ hpc = "build" => WildMappingCache # NoMap
    /\ \A w \in Workers : wk[w].pc = "clone" => WildMappingCache # NoMap

(***************************************************************************)
(* CRDMapper.Map, on the stores the controller can leave.                  *)
(***************************************************************************)
ErrNotMapped == [ kind |-> "error", of |-> "ErrNotMapped" ]

\* the canonical ARNs Map is asked for
MapLookups == { RoleArn("Da"), RoleArn("da"), RoleArn("db"), UserArn("da") }

\* CRDMapper.Map: the argument is lower-cased and looked up in the index on
\* canonicalARN; the first object found gives the mapping
CRDMap ==
    /\ \E a \in MapLookups :
         LET canonicalARN == LowerArn(a)
             objects == ByIndex(informer, canonicalARN) IN
         IF objects # {}
         THEN \E o \in objects :
                mapped' = [ arn |-> a,
                            mapping |-> [ IdentityARN |-> canonicalARN,
                                          Username |-> o.Username ],
                            err |-> None ]
         ELSE mapped' = [ arn |-> a, mapping |-> None, err |-> ErrNotMapped ]
    /\ UNCHANGED << api, apiEvents, uids, informer, synced, notes, workqueue, WildMappingCache,
                    WildMappingCacheLock, maps, wk, hpc, hl, runpc, ctrlStopCh >>
    /\ UNCHANGED << verifyVars, gen, dynVars >>

\* a mapping the informer holds, with the status the controller gives it or
\* with none yet
Synced(obj) == [ obj EXCEPT !.CanonicalARN = Canonicalize(LowerArn(obj.ARN)).arn ]
InformerObjects(n) ==
    { Absent }
      \cup { RAMIdentityMapping(n, a, 1) : a \in ArnMenu(n) }
      \cup { Synced(RAMIdentityMapping(n, a, 1)) : a \in ArnMenu(n) }

\* the maps the wildcard cache can hold: copies of mappings whose canonical
\* ARN has a wildcard
WildEntries(n) ==
    { Synced(RAMIdentityMapping(n, a, 1)) :
        a \in { b \in ArnMenu(n) : hasWildDedinedInMappingArn(LowerArn(b)) } }
WildMaps ==
    UNION { [ S -> UNION { WildEntries(n) : n \in S } ] : S \in SUBSET Names }

\* the controller is running, the queue is empty and the workers wait for
\* items; the informer and the wildcard cache hold what earlier events left
MapInit ==
    /\ v = [ clusterID |-> "c999", stsEndpoint |-> HostVpc ]
    /\ VerifyIdle
    /\ GenIdle
    /\ DynIdle
    /\ informer \in [ Names -> UNION { InformerObjects(n) : n \in Names } ]
    /\ \A n \in Names : informer[n] \in InformerObjects(n)
    /\ api = informer
    /\ apiEvents = 1
    /\ uids = [ n \in Names |-> IF informer[n] = Absent THEN 0 ELSE 1 ]
    /\ synced = TRUE
    /\ notes = << >>
    /\ workqueue = NewQueue
    /\ WildMappingCache = 1
    /\ WildMappingCacheLock = Unlocked
    /\ \E m \in WildMaps :
         /\ \A n \in DOMAIN m : m[n].Name = n
         /\ maps = [ i \in MapIds |-> IF i = 1 THEN [ used |-> TRUE, m |-> m ] ELSE FreeCell ]
    /\ wk = [ w \in Workers |-> WorkerLocals("get") ]
    /\ hpc = "idle"
    /\ hl = HandlerLocals
    /\ runpc = "waitStop"
    /\ ctrlStopCh = FALSE
    /\ mapped = None

MapNext ==
    \/ CRDMap

MapSpec == MapInit /\ [][MapNext]_vars

RECURSIVE Glob(_, _)
\* glob matching of a pattern on a string: ? is one character, * is any
\* number of characters
Glob(p, str) ==
    IF p = << >> THEN str = << >>
    ELSE IF Head(p) = "*"
    THEN Glob(Tail(p), str) \/ (str # << >> /\ Glob(p, Tail(str)))
    ELSE /\ str # << >>
         /\ Head(p) \in { "?", Head(str) }
         /\ Glob(Tail(p), Tail(str))

\* a canonical ARN with wildcards in its resource matches an ARN
GlobMatch(pattern, a) ==
    /\ pattern.kind = "arn"
    /\ a.kind = "arn"
    /\ pattern.account = a.account
    /\ Len(pattern.resource) = Len(a.resource)
    /\ \A i \in DOMAIN a.resource : Glob(Chars(pattern.resource[i]), Chars(a.resource[i]))

\* the map the wildcard cache holds
CacheMap == maps[WildMappingCache].m

\* the names of the cached wildcard mappings that match an ARN
WildMatches(a) == { n \in DOMAIN CacheMap : GlobMatch(CacheMap[n].CanonicalARN, a) }

\* C24: when the index on canonicalARN has nothing for the ARN, Map answers
\* with a mapping of the wildcard cache whose canonical ARN glob-matches it;
\* it answers NotMapped only when the cache has no such mapping either.
C24_WildcardFallback ==
    (mapped # None /\ ByIndex(informer, LowerArn(mapped.arn)) = {}) =>
        IF WildMatches(LowerArn(mapped.arn)) = {}
        THEN mapped.err = ErrNotMapped
        ELSE /\ mapped.err = None
             /\ mapped.mapping.Username \in WildMatches(LowerArn(mapped.arn))

(***************************************************************************)
(* The generator, and Verify on the tokens it returns.                     *)
(***************************************************************************)
\* a client asks the generator for a token
Generate ==
    /\ pc = "idle"
    /\ gen = None
    /\ \E clusterID \in GenClusterIDs, cred \in GenCredentials :
         LET r == GetWithOptions(clusterID, cred, 0) IN
         gen' = [ kind |-> "call", clusterID |-> clusterID, cred |-> cred,
                  token |-> r.token, expiration |-> r.expiration, err |-> r.err ]
    /\ UNCHANGED << verifyVars, dynVars, ctrlVars >>

\* the client hands the generated token to Verify
CallGenerated ==
    /\ pc = "idle"
    /\ gen # None
    /\ gen.token # None
    /\ token' = gen.token
    /\ pc' = "decode"
    /\ UNCHANGED << v, tokenBytes, parsedURL, accessKeyId, req, response, sent, ret >>
    /\ UNCHANGED otherVars

\* the validation of a generated token: of the orders a range over its
\* queryParams may take, the rotations of the order of appearance
ValidateGenerated ==
    /\ pc = "validate"
    /\ \E order \in Rotations(KeysInOrder(parsedURL.RawQuery, {})) : ValidateIn(order)

GenInit ==
    /\ v \in GenVerifiers
    /\ VerifyIdle
    /\ GenIdle
    /\ DynIdle
    /\ CtrlIdle

GenNext ==
    \/ Generate
    \/ CallGenerated
    \/ DecodeToken
    \/ ParseV1URL
    \/ ValidateGenerated

GenSpec == GenInit /\ [][GenNext]_vars

(***************************************************************************)
(* Properties of the generator.                                            *)
(***************************************************************************)
\* Verify runs on the token the generator returned for the verifier's
\* cluster id
VerifyingOwnToken ==
    /\ gen # None
    /\ gen.token # None
    /\ token = gen.token
    /\ gen.clusterID = v.clusterID

\* C13: a token the generator returns for cluster id c and access key id k,
\* of at most 4096 bytes, passes Parse and Validate of a verifier configured
\* with c, and the access key id Verify extracts from it is k.
C13_GeneratedTokenPasses ==
    (VerifyingOwnToken /\ TokenLen(gen.token) <= maxTokenLenBytes)
        => /\ pc # "done"
           /\ pc = "do" => accessKeyId = gen.cred.accessKey

\* C14: every token the generator returns is at most 4096 bytes long.
C14_TokenAtMost4096 ==
    (gen # None /\ gen.token # None) => TokenLen(gen.token) <= maxTokenLenBytes

(***************************************************************************)
(* Properties of Verify.                                                   *)
(***************************************************************************)
\* the token of the running call takes the v1 branch of Verify
OnV1Path == token # None /\ HasPrefix(token, v1Prefix)

\* the token's text after its prefixes is the base64 of a URL
HasURL == token # None /\ token.enc.kind = "url"

\* the hosts of TokenHosts that are of the form sts[.<region>].aliyuncs.com[.cn]
PatternHosts == { HostDefault, HostRegion }

\* the pairs of the token's query whose key, lower-cased, is k
PairsOf(q, k) == { i \in 1..Len(q) : ToLower(q[i][1]) = k }

\* C1: every request a v1 token makes Verify send goes to the verifier's
\* configured endpoint; the host of the token's URL is the host of the
\* request only where it is that endpoint.
C1_ReplayGoesToTrustedEndpoint ==
    \A i \in 1..Len(sent) :
        sent[i].version = "v1" =>
            /\ sent[i].Host = v.stsEndpoint
            /\ token.enc.host # v.stsEndpoint => sent[i].Host # token.enc.host

\* a v1 token naming sts.cn-hangzhou.aliyuncs.com was replayed by a verifier
\* whose endpoint is another host
C1_Witness ==
    /\ Len(sent) = 1
    /\ sent[1].version = "v1"
    /\ token.enc.host = HostRegion
    /\ v.stsEndpoint = HostVpc

\* C2: Verify returns an Identity for a v1 token only if the cluster id
\* parameters of the token (the pairs whose key is clusterid in any letter
\* case) equal the verifier's cluster id, compared case-sensitively.
C2_IdentityOnlyForOwnCluster ==
    (ret.id # None /\ OnV1Path) =>
        \A i \in PairsOf(token.enc.query, "clusterid") :
            token.enc.query[i][2] = v.clusterID

\* the parse and validate conditions of a v1 token, stated on the token: its
\* length, its URL's scheme, host and path, the keys Query() yields, and an
\* action and a cluster id that pass
PassesParseAndValidate(t, vf) ==
    /\ TokenLen(t) <= maxTokenLenBytes
    /\ t.enc.kind = "url"
    /\ ToLower(t.enc.scheme) = "https"
    /\ t.enc.host \in PatternHosts
    /\ t.enc.path = "/"
    /\ LET q == t.enc.query
           good == { i \in 1..Len(q) : q[i][2] # "%zz" } IN
       /\ \A i \in good : ToLower(q[i][1]) \in parameterWhitelist
       /\ \A i, j \in good : q[i][1] = q[j][1] => i = j
       /\ \E i \in good : ToLower(q[i][1]) = "action" /\ q[i][2] = "GetCallerIdentity"
       /\ \E i \in good : ToLower(q[i][1]) = "clusterid" /\ q[i][2] = vf.clusterID

\* C3: a request is sent for a v1 token only when the token passed every
\* parse and validate condition, at most one request is sent, and a call
\* that ends in a FormatError has sent none.
C3_NoRequestBeforeChecksPass ==
    /\ (sent # << >> /\ OnV1Path) => PassesParseAndValidate(token, v)
    /\ Len(sent) <= 1
    /\ (pc = "done" /\ ret.err.kind = "FormatError") => sent = << >>

\* a v1 token passed, its request went out and the call returned
C3_Witness ==
    /\ pc = "done"
    /\ OnV1Path
    /\ Len(sent) = 1
    /\ ret.err.kind # "FormatError"

\* the text after the token's version prefix is not standard base64: it is
\* garbage, or it starts with another prefix ('-' and '.' are not in the
\* alphabet)
PayloadUndecodable(t) == Len(t.pre) >= 1 /\ (Len(t.pre) > 1 \/ t.enc = Garbage)

\* C4: a token longer than 4096 bytes, a token that starts with neither
\* prefix, and a token whose payload is not standard base64 each end in a
\* FormatError.
C4_MalformedTokenRejected ==
    (/\ pc = "done"
     /\ \/ TokenLen(token) > maxTokenLenBytes
        \/ token.pre = << >>
        \/ PayloadUndecodable(token))
    => (ret.id = None /\ ret.err.kind = "FormatError")

\* C5: a v1 token whose URL has a scheme other than https, a host outside
\* the trusted pattern or a path other than "/" ends in a FormatError, with
\* no Identity and no request sent.
C5_BadURLRejected ==
    (/\ pc = "done"
     /\ OnV1Path
     /\ HasURL
     /\ \/ ToLower(token.enc.scheme) # "https"
        \/ token.enc.host \notin PatternHosts
        \/ token.enc.path # "/")
    => (ret.id = None /\ ret.err.kind = "FormatError" /\ sent = << >>)

\* a v1 token of valid length with an https URL, path "/", and the host
\* sts.evil.aliyuncs.com.cn.attacker.tld was refused for its host
C5_Witness ==
    /\ pc = "done"
    /\ token.pre = << v1Prefix >>
    /\ HasURL
    /\ token.enc.scheme = "https"
    /\ token.enc.path = "/"
    /\ token.enc.host = HostEvil
    /\ ret = [ id |-> None,
               err |-> FormatError("unexpected hostname in pre-signed URL", HostEvil) ]

\* C6: a v1 token with a query key that is not in the allow-list ends in a
\* FormatError, and every query key of a token that is replayed is in the
\* allow-list.
C6_OnlyAllowListedKeys ==
    /\ (pc = "done" /\ OnV1Path /\ HasURL
        /\ \E i \in 1..Len(token.enc.query) :
              ToLower(token.enc.query[i][1]) \notin parameterWhitelist)
       => (ret.id = None /\ ret.err.kind = "FormatError")
    /\ (sent # << >> /\ OnV1Path)
       => \A i \in 1..Len(token.enc.query) :
              ToLower(token.enc.query[i][1]) \in parameterWhitelist

\* C7: in a v1 token that passed validation no query key occurs twice, and
\* a token in which a key occurs twice ends in a FormatError.
C7_NoKeyWithSeveralValues ==
    /\ (sent # << >> /\ OnV1Path)
       => \A i, j \in 1..Len(token.enc.query) :
              token.enc.query[i][1] = token.enc.query[j][1] => i = j
    /\ (pc = "done" /\ OnV1Path /\ HasURL
        /\ \E i, j \in 1..Len(token.enc.query) :
              i # j /\ token.enc.query[i][1] = token.enc.query[j][1])
       => (ret.id = None /\ ret.err.kind = "FormatError")

\* C8: a v1 token is replayed only if its action parameters (the well-formed
\* pairs whose key is action in any letter case) are GetCallerIdentity, and
\* there is one.
C8_OnlyGetCallerIdentityReplayed ==
    (sent # << >> /\ OnV1Path) =>
        LET q == token.enc.query
            acts == { i \in PairsOf(q, "action") : ~Malformed(q[i]) } IN
        /\ acts # {}
        /\ \A i \in acts : q[i][2] = "GetCallerIdentity"

\* C9: Verify returns an Identity only for an answer with status 200; after
\* a transport failure or any other status it returns no Identity and an
\* error.
C9_IdentityOnlyOnStatus200 ==
    /\ ret.id # None => (response.kind = "response" /\ response.StatusCode = 200)
    /\ (pc = "done" /\ sent # << >>
        /\ (response.kind # "response" \/ response.StatusCode # 200))
       => (ret.id = None /\ ret.err # None)

\* the identity service answered 403 with a well-formed identity body, and
\* the call returned an error
C9_Witness ==
    /\ pc = "done"
    /\ response.kind = "response"
    /\ response.StatusCode = 403
    /\ response.Body.kind = "json"
    /\ response.Body.Arn.kind = "arn"
    /\ Len(response.Body.PrincipalID) = 1
    /\ ret.id = None
    /\ ret.err.kind = "STSError"

\* C10: every Identity Verify returns has a canonical ARN that is not the
\* empty string, whatever body came with status 200.
C10_CanonicalArnNonEmpty ==
    ret.id # None => (ret.id.CanonicalARN.kind = "arn" /\ ret.id.CanonicalARN.resource # << >>)

\* status 200 came with an empty Arn and a well-formed PrincipalId, and the
\* call returned no Identity
C10_Witness ==
    /\ pc = "done"
    /\ response.kind = "response"
    /\ response.StatusCode = 200
    /\ response.Body.kind = "json"
    /\ response.Body.Arn.kind = "empty"
    /\ Len(response.Body.PrincipalID) = 2
    /\ ret.id = None
    /\ ret.err.kind = "STSError"

\* the call got status 200 with a body that decodes
GotIdentityBody ==
    /\ pc = "done"
    /\ response.kind = "response"
    /\ response.StatusCode = 200
    /\ response.Body.kind = "json"

\* the ARNs of Arns that are user, role, assumed-role or federated-user ARNs
KnownArn(a) ==
    /\ a.kind = "arn"
    /\ a.resource[1] \in { "user", "role", "assumed-role", "federated-user" }

StepOf(err) ==
    IF err = None THEN 0
    ELSE IF err.kind = "FormatError"
    THEN IF err.message \in { "non-whitelisted query parameter",
                              "query parameter with multiple values not supported",
                              "unexpected action parameter in pre-signed URL",
                              "unexpected clusterid in token" }
         THEN 2 ELSE 1
    ELSE IF err.cause \in { "urlError", "otherError" } THEN 3
    ELSE IF err.cause = "canonicalize" THEN 5
    ELSE IF err.cause = "malformed UserID" THEN 6
    ELSE 4

\* the parse conditions of a v1 token, stated on the token
PassesParse(t) ==
    /\ TokenLen(t) <= maxTokenLenBytes
    /\ t.enc.kind = "url"
    /\ ToLower(t.enc.scheme) = "https"
    /\ t.enc.host \in PatternHosts
    /\ t.enc.path = "/"

\* the validate conditions hold of a v1 token in whatever order its keys are
\* visited: every action given is GetCallerIdentity and every cluster id given
\* is the verifier's
ValidateNeverFails(t, vf) ==
    /\ PassesParseAndValidate(t, vf)
    /\ LET q == t.enc.query
           good == { i \in 1..Len(q) : q[i][2] # "%zz" } IN
       /\ \A i \in good : ToLower(q[i][1]) = "action" => q[i][2] = "GetCallerIdentity"
       /\ \A i \in good : ToLower(q[i][1]) = "clusterid" => q[i][2] = vf.clusterID

\* C12 as stated: the PrincipalId is split in ExtractIdentity, before
\* Canonicalize, so a response with a malformed PrincipalId gives the
\* malformed-id error whatever its ARN is.
C12_OriginalOrder ==
    (GotIdentityBody /\ Len(response.Body.PrincipalID) \notin {1, 2})
        => StepOf(ret.err) = 6

\* C12 as amended: the steps run in the order parse (with the host replaced
\* right after the host test), validate, replay, status and body, canonicalize,
\* PrincipalId split, and the error returned is the one of the first step that
\* fails in this order.
C12_StepOrder ==
    /\ parsedURL # None => parsedURL.Host = v.stsEndpoint
    /\ (pc = "done" /\ OnV1Path) =>
         LET step == StepOf(ret.err) IN
         /\ ~PassesParse(token) <=> step = 1
         /\ step = 2 => sent = << >>
         /\ (PassesParse(token) /\ ~PassesParseAndValidate(token, v)) => step = 2
         /\ step = 2 => ~ValidateNeverFails(token, v)
         /\ step \notin {1, 2} =>
              /\ Len(sent) = 1
              /\ response.kind # "response" <=> step = 3
              /\ response.kind = "response" =>
                   LET bodyOK == response.StatusCode = 200 /\ response.Body.kind = "json" IN
                   /\ ~bodyOK <=> step = 4
                   /\ bodyOK =>
                        /\ ~KnownArn(response.Body.Arn) <=> step = 5
                        /\ (KnownArn(response.Body.Arn)
                            /\ Len(response.Body.PrincipalID) \notin {1, 2}) <=> step = 6

\* status 200 came with an ARN that does not canonicalize and a PrincipalId of
\* three parts, and the call returned the error of Canonicalize
C12_Witness ==
    /\ GotIdentityBody
    /\ OnV1Path
    /\ ~KnownArn(response.Body.Arn)
    /\ Len(response.Body.PrincipalID) = 3
    /\ ret.err.cause = "canonicalize"

\* what the validation of the query ends in when the range over queryParams
\* visits the keys in this order: the error, or the action, cluster id and
\* access key id that passed
ValidateResult(order) ==
    LET r == RangeQueryParams(Query(parsedURL), order, 1, EmptyValues) IN
    IF r.err # None THEN [ err |-> r.err ]
    ELSE IF CheckAction(r.lower) # None THEN [ err |-> CheckAction(r.lower) ]
    ELSE IF verifyClusterID(v, Get(r.lower, "clusterid")) # None
    THEN [ err |-> verifyClusterID(v, Get(r.lower, "clusterid")) ]
    ELSE [ err |-> None, action |-> Get(r.lower, "action"),
           clusterid |-> Get(r.lower, "clusterid"),
           accesskeyid |-> Get(r.lower, "accesskeyid") ]

\* the values the request carries under the key k, in any letter case
Carried(r, k) == { r.RawQuery[i][2] : i \in PairsOf(r.RawQuery, k) }

\* C31: the validation of a v1 token has one outcome, whatever the order in
\* which the query keys are visited, and the action, the cluster id and the
\* access key id of a replayed request are the validated ones:
\* GetCallerIdentity, the verifier's cluster id and the access key id Verify
\* read.
C31_ValidationDeterministic ==
    /\ pc = "validate" =>
         \A o1, o2 \in RangeOrders(DOMAIN Query(parsedURL)) :
             ValidateResult(o1) = ValidateResult(o2)
    /\ \A i \in 1..Len(sent) :
         sent[i].version = "v1" =>
             /\ Carried(sent[i], "action") = { "GetCallerIdentity" }
             /\ Carried(sent[i], "clusterid") = { v.clusterID }
             /\ Carried(sent[i], "accesskeyid") \subseteq { accessKeyId }

\* C32: a token in which the v1 prefix is followed by the v2 prefix is
\* rejected for its base64: the payload Verify decodes is the text after the
\* first prefix, and a second prefix is not base64.
C32_SecondPrefixNotStripped ==
    /\ (pc = "done" /\ token.pre = << v1Prefix, v2Prefix >>
        /\ TokenLen(token) <= maxTokenLenBytes)
       => ret = [ id |-> None, err |-> FormatError("illegal base64 data", "") ]
    /\ (pc \in { "parseV1", "parseV2" }) => Len(token.pre) = 1

Next ==
    \/ Call
    \/ DecodeToken
    \/ ParseV1URL
    \/ ValidateQuery
    \/ ParseV2Token
    \/ Do
    \/ HandleResponse
    \/ Return

Spec == Init /\ [][Next]_vars
====
